---- MODULE Spec2Model ----
(***************************************************************************)
(* aodnfetcher: the content-addressed cache of fetcherlib.py               *)
(* (FetcherCachingDownloader) shared by several OS processes through one   *)
(* cache directory: blobs/<sha256>, cacheindex.json, cacheindex.lock and   *)
(* the temporary files of running downloads.                               *)
(*                                                                         *)
(* Every system call sequence of the code that another process can         *)
(* observe is a separate step.  Steps that only read, and whose result     *)
(* does not depend on where between its neighbours they run, are merged    *)
(* with the neighbour (noted at the action).                               *)
(***************************************************************************)
EXTENDS Integers, Sequences, FiniteSets, TLC

\* ------------------------------------------------------------------ bounds
Procs == {"p1", "p2"}      \* OS processes sharing the cache directory
NoProc == "none"
MaxKills == 1              \* processes killed in one behaviour (SpecCrash)
MaxOps == 4                \* operations started, and processes killed, in one
                           \* behaviour of the specifications with sweeps
Unlimited == 0 - 1

\* Python's None in the unique_id and file_hash fields
None == 0

\* ------------------------------------------------------------ the sources
U_HTTP == "http://h/a"
U_FILE == "file:///d/f"
URLS == {U_HTTP, U_FILE}

\* What a source can hold: an HTTP response (ETag header or none, body), a
\* local file (body only; its token is the hash of the body).  No body is
\* the beginning of another one, so a partly written copy is no body.
HttpVersions ==
    { [etag |-> None, body |-> <<1>>],
      [etag |-> 1,    body |-> <<1>>],
      [etag |-> 2,    body |-> <<2, 1>>] }
FileVersions ==
    { [etag |-> None, body |-> <<1>>],
      [etag |-> None, body |-> <<2, 1>>] }
Versions(u) == IF u = U_HTTP THEN HttpVersions ELSE FileVersions

\* ------------------------------------------------------- pure functions
\* hashlib.sha256: modelled as an injective digest of the byte sequence
\* (bytes are 1..2, so the base-3 numeral with a leading 1 is injective).
RECURSIVE sha256(_)
sha256(c) ==
    IF c = <<>> THEN 1
    ELSE 3 * sha256(SubSeq(c, 1, Len(c) - 1)) + c[Len(c)]

\* A first-block-only hasher: the loop over the blocks is missing.
get_file_hash_first_block(c) ==
    IF Len(c) = 0 THEN None ELSE sha256(SubSeq(c, 1, 1))

\* get_file_hash: ValueError on a zero-length file (None here: the caller
\* raises), else the digest of all blocks.
get_file_hash(c) ==
    IF Len(c) = 0 THEN None ELSE sha256(c)

\* AbstractFileFetcher.real_url / LocalFileFetcher.real_url
real_url(u) == IF u = U_FILE THEN "/d/f" ELSE u

\* CachedFile as the dict stored in the index
CachedFile(u, uid, ru, h) ==
    [url |-> u, unique_id |-> uid, real_url |-> ru, file_hash |-> h]

EmptyIndex == [u \in {} |-> CachedFile("", None, "", None)]
NoBlobs == [h \in {} |-> <<>>]

\* ---------------------------------------------------------------- state
VARIABLES
    source,      \* [URLS -> version]: what each source holds now
    blob_dir,    \* cache_dir/blobs exists
    blobs,       \* cache_dir/blobs: file name (a hash) -> content
    index_file,  \* cacheindex.json: [exists, valid, data]; valid = FALSE
                 \* while the file is truncated and not yet rewritten
    lock_file,   \* cacheindex.lock exists
    lock,        \* the process holding the InterProcessLock, or NoProc
    tmp,         \* [Procs -> <<>> or <<data>>]: the NamedTemporaryFile of a
                 \* running download, as visible in cache_dir
    leftover,    \* processes that left a temporary file behind in cache_dir
    proc,        \* [Procs -> locals]: position and local variables
    kills,       \* processes killed so far
    budget,      \* operations that may still start (Unlimited: any number)
    committed,   \* history: the last completely written index content
    last,        \* history: [URLS -> <<>> or <<[token, content]>>], the
                 \* last successful get_handle of the URL
    quiet,       \* history: processes whose running operation no other
                 \* process has overlapped
    call         \* the call of a module-level function or of a resolving
                 \* strategy that is under way, with what it has done so far

vars == <<source, blob_dir, blobs, index_file, lock_file, lock, tmp,
          leftover, proc, kills, budget, committed, last, quiet, call>>

\* No call outside the downloader is under way
NoCall == [fn |-> "none"]

\* The locals of a process outside any operation
Locals(pcv) ==
    [pc |-> pcv, op |-> "none", url |-> "", response |-> <<>>,
     cached_file |-> <<>>, nreads |-> 0,
     base |-> EmptyIndex, new_index |-> EmptyIndex, in_use |-> {},
     orphans |-> {},
     pre_blobs |-> NoBlobs, pruned |-> FALSE, blob_path |-> None,
     content |-> <<>>, ok |-> TRUE, err |-> "none"]

Inactive(p) == proc[p].pc \in {"new", "idle", "done"}

\* FetcherCachingDownloader.index: {} when the file is absent or no JSON
index(f) == IF f.exists /\ f.valid THEN f.data ELSE EmptyIndex

\* os.listdir(cache_dir)
CacheRoot ==
    (IF blob_dir THEN {<<"blobs">>} ELSE {})
    \cup (IF index_file.exists THEN {<<"cacheindex.json">>} ELSE {})
    \cup (IF lock_file THEN {<<"cacheindex.lock">>} ELSE {})
    \cup {<<"tmp", p>> : p \in {q \in Procs : tmp[q] # <<>>}}
    \cup {<<"old", p>> : p \in leftover}

\* The token the source of u reports now
Token(u) ==
    IF u = U_HTTP THEN source[u].etag ELSE get_file_hash(source[u].body)

InitCache(b) ==
    /\ budget = b
    /\ source \in [URLS -> HttpVersions \cup FileVersions]
    /\ \A u \in URLS : source[u] \in Versions(u)
    /\ blob_dir = FALSE
    /\ blobs = NoBlobs
    /\ index_file = [exists |-> FALSE, valid |-> FALSE, data |-> EmptyIndex]
    /\ lock_file = FALSE
    /\ lock = NoProc
    /\ tmp = [p \in Procs |-> <<>>]
    /\ leftover = {}
    /\ proc = [p \in Procs |-> Locals("new")]
    /\ kills = 0
    /\ committed = EmptyIndex
    /\ last = [u \in URLS |-> <<>>]
    /\ quiet = {}
    /\ call = NoCall

Init == InitCache(MaxOps)

\* An operation starts (or a process is killed), within the budget of the
\* behaviour.
StartOp ==
    /\ budget # 0
    /\ budget' = IF budget > 0 THEN budget - 1 ELSE budget

\* An operation of p starts: it overlaps whatever the others are running.
QuietAtStart(p) ==
    IF \A o \in Procs \ {p} : Inactive(o) THEN {p} ELSE {}


\* ------------------------------------------------------------ get_handle
\* _ensure_cached's test "cached_file.unique_id and
\* file_fetcher.unique_id == cached_file.unique_id", always re-downloading
IsCurrent_never(cf, uid) == FALSE

\* the same test without the comparison of the tokens
IsCurrent_any_token(cf, uid) == cf.unique_id # None

IsCurrent(cf, uid) == cf.unique_id # None /\ uid = cf.unique_id

\* a blob named after its source instead of its content
get_blob_path_by_url(cf) == IF cf.url = U_HTTP THEN 100 ELSE 101

\* _get_blob_path: the blob's file name in cache_dir/blobs
get_blob_path(cf) == cf.file_hash

\* os.path.exists(blob_path) that finds no blob
BlobExists_never(h) == FALSE

\* os.path.exists(blob_path)
BlobExists(h) == h \in DOMAIN blobs

fs == <<blob_dir, blobs, index_file, lock_file, lock, tmp, leftover>>

\* get_handle -> _ensure_cached up to the call of _update_cache: the
\* unlocked read of the index (_get_cached_file), the read of the
\* strategy's token and the test of the blob's existence (three reads,
\* merged: a later prune turns the hit into a failing open, modelled at
\* get_handle_open).
ensure_cached(p, u) ==
    /\ proc[p].pc = "idle"
    /\ LET idx == index(index_file)
           entry == IF u \in DOMAIN idx THEN <<idx[u]>> ELSE <<>>
           reads_uid == entry # <<>> /\ entry[1].unique_id # None
           raises == reads_uid /\ u = U_FILE /\ Len(source[u].body) = 0
           resp == IF reads_uid /\ u = U_HTTP THEN <<source[u]>> ELSE <<>>
           current == reads_uid /\ IsCurrent(entry[1], Token(u))
           hit == current /\ BlobExists(get_blob_path(entry[1]))
           l0 == [Locals("idle") EXCEPT !.op = "get", !.url = u,
                      !.response = resp]
       IN proc' = [proc EXCEPT ![p] =
              IF raises THEN [l0 EXCEPT !.pc = "done", !.ok = FALSE]
              ELSE IF hit
                   THEN [l0 EXCEPT !.pc = "gh_open", !.cached_file = entry,
                             !.blob_path = get_blob_path(entry[1])]
              ELSE [l0 EXCEPT !.pc = "uc_begin",
                        !.cached_file = IF current THEN entry ELSE <<>>]]
    /\ StartOp
    /\ quiet' = QuietAtStart(p)
    /\ UNCHANGED <<source, fs, kills, committed, last>>
    /\ UNCHANGED call

\* _update_cache, first lines: CachedFile.from_fetcher (reads the token
\* again: the HTTP response is memoized, the local file is hashed again)
\* and the creation of the temporary file in cache_dir.
update_cache_begin(p) ==
    /\ proc[p].pc = "uc_begin"
    /\ LET l == proc[p]
           u == l.url
           fresh == l.cached_file = <<>>
           raises == fresh /\ u = U_FILE /\ Len(source[u].body) = 0
           resp == IF fresh /\ u = U_HTTP /\ l.response = <<>>
                   THEN <<source[u]>> ELSE l.response
           uid == IF u = U_HTTP THEN resp[1].etag
                  ELSE get_file_hash(source[u].body)
           cf == IF fresh THEN <<CachedFile(u, uid, real_url(u), None)>>
                 ELSE l.cached_file
       IN /\ proc' = [proc EXCEPT ![p] =
                 IF raises THEN [l EXCEPT !.pc = "done", !.ok = FALSE]
                 ELSE [l EXCEPT !.pc = "uc_copy", !.response = resp,
                           !.cached_file = cf]]
          /\ tmp' = IF raises THEN tmp ELSE [tmp EXCEPT ![p] = << <<>> >>]
    /\ UNCHANGED <<source, blob_dir, blobs, index_file, lock_file, lock,
                   leftover, kills, budget, committed, last, quiet>>
    /\ UNCHANGED call

\* shutil.copyfileobj(file_fetcher.handle, t): the handle is opened at the
\* first read (LocalFileFetcher.handle opens the file now, HTTPFetcher.handle
\* is the body of the memoized response); one byte a step.  Writes to a
\* temporary file that a prune has unlinked go to the unlinked inode.
update_cache_copy(p) ==
    /\ proc[p].pc = "uc_copy"
    /\ LET l == proc[p]
           resp == IF l.response = <<>> THEN <<source[l.url]>> ELSE l.response
           body == resp[1].body
           n == IF tmp[p] = <<>> THEN Len(body) ELSE Len(tmp[p][1])
           more == n < Len(body)
       IN /\ tmp' = IF more
                    THEN [tmp EXCEPT ![p] = <<Append(tmp[p][1], body[n + 1])>>]
                    ELSE tmp
          /\ proc' = [proc EXCEPT ![p] =
                 [l EXCEPT !.response = resp, !.nreads = 1,
                      !.pc = IF more /\ n + 1 < Len(body)
                             THEN "uc_copy" ELSE "uc_hash"]]
    /\ UNCHANGED <<source, blob_dir, blobs, index_file, lock_file, lock,
                   leftover, kills, budget, committed, last, quiet>>
    /\ UNCHANGED call

\* a rename that leaves the temporary file where it is
rename_sync_nowhere(p, h) == UNCHANGED <<blobs, tmp>>

\* _rename_sync: os.rename of the complete temporary file to its final
\* name (atomic, replaces an existing file), then fsync of the directory.
rename_sync(p, h) ==
    /\ blobs' = [n \in DOMAIN blobs \cup {h} |->
                    IF n = h THEN tmp[p][1] ELSE blobs[n]]
    /\ tmp' = [tmp EXCEPT ![p] = <<>>]

\* a download written straight into the blob directory, where a failure
\* leaves what has been written
abandon_tmp_in_blobs(p) ==
    /\ blobs' = [n \in DOMAIN blobs \cup {None} |->
                    IF n = None THEN tmp[p][1] ELSE blobs[n]]
    /\ tmp' = [tmp EXCEPT ![p] = <<>>]
    /\ UNCHANGED leftover

\* with tempfile.NamedTemporaryFile(prefix=.., dir=self.cache_dir,
\* delete=False) as t: when the block raises, the file is closed and stays
\* in cache_dir under its temporary name, as a file of no running download
abandon_tmp(p) ==
    /\ tmp' = [tmp EXCEPT ![p] = <<>>]
    /\ leftover' = leftover \cup {p}
    /\ UNCHANGED blobs

\* shutil.copyfileobj(file_fetcher.handle, t) raises: the read of the
\* handle fails (requests.get, raise_for_status, open of the local file,
\* get_object) or a read of the stream does, and the exception leaves
\* get_handle
handle_raise(p) ==
    /\ proc[p].pc = "uc_copy"
    /\ tmp[p] # <<>>
    /\ abandon_tmp(p)
    /\ proc' = [proc EXCEPT ![p] =
           [proc[p] EXCEPT !.pc = "done", !.ok = FALSE, !.err = "handle"]]
    /\ UNCHANGED <<source, blob_dir, index_file, lock_file, lock, kills,
                   budget, committed, last, quiet, call>>

\* _update_cache after the copy: flush and fsync, get_file_hash of the
\* temporary file, then os.remove of the temporary file if the blob exists,
\* else _rename_sync.  get_file_hash raises for a temporary file that a
\* prune has unlinked (OSError) and for an empty one (ValueError): the
\* temporary file was created with delete=False and stays behind.
update_cache_publish(p) ==
    /\ proc[p].pc = "uc_hash"
    /\ LET l == proc[p]
           gone == tmp[p] = <<>>
           empty == ~gone /\ Len(tmp[p][1]) = 0
           h == IF gone THEN None ELSE get_file_hash(tmp[p][1])
           cf == [l.cached_file[1] EXCEPT !.file_hash = h]
       IN IF gone \/ empty
          THEN /\ proc' = [proc EXCEPT ![p] =
                      [l EXCEPT !.pc = "done", !.ok = FALSE]]
               /\ IF empty THEN abandon_tmp(p)
                  ELSE UNCHANGED <<tmp, leftover, blobs>>
          ELSE /\ proc' = [proc EXCEPT ![p] =
                      [l EXCEPT !.pc = "ui_lock", !.cached_file = <<cf>>,
                           !.blob_path = get_blob_path(cf)]]
               /\ IF BlobExists(get_blob_path(cf))
                  THEN /\ tmp' = [tmp EXCEPT ![p] = <<>>]
                       /\ UNCHANGED blobs
                  ELSE rename_sync(p, get_blob_path(cf))
               /\ UNCHANGED leftover
    /\ UNCHANGED <<source, blob_dir, index_file, lock_file, lock, kills, budget,
                   committed, last, quiet>>
    /\ UNCHANGED call


\* ---------------------------------------------------------- _update_index
\* a lock that excludes nobody
LockFree_always == TRUE

\* InterProcessLock(cache_index_lockfile).acquire() succeeds
LockFree == lock = NoProc

\* an index rewritten from the new entry alone, without the entries read
set_entry_only(base, cf) == [u \in {cf.url} |-> cf]

\* the entry written before the hash of the download is known
set_entry_without_hash(base, cf) ==
    [u \in DOMAIN base \cup {cf.url} |->
        IF u = cf.url THEN [cf EXCEPT !.file_hash = None] ELSE base[u]]

\* index = dict(self.index); index[cached_file.url] = dict(cached_file)
set_entry(base, cf) ==
    [u \in DOMAIN base \cup {cf.url} |-> IF u = cf.url THEN cf ELSE base[u]]

\* a lock that stays held when the block under it raises
exit_lock_unless_raised(l, p, raised) ==
    IF raised THEN l ELSE IF l = p THEN NoProc ELSE l

\* InterProcessLock.__exit__ at the end of the with block, on the normal
\* path and when the block raises: release()
exit_lock(l, p, raised) == IF l = p THEN NoProc ELSE l

\* with InterProcessLock(...): index = dict(self.index); index[url] = ...;
\* open(self.cache_index_file, 'w').  The lock file is created by the first
\* acquire; open(.., 'w') truncates the index in place.  (Acquire, read and
\* truncate are one step: until the truncation no other process can tell
\* that the lock is held, except by waiting for it.)
update_index_open(p) ==
    /\ proc[p].pc = "ui_lock"
    /\ LockFree
    /\ lock' = p
    /\ lock_file' = TRUE
    /\ index_file' = [exists |-> TRUE, valid |-> FALSE, data |-> EmptyIndex]
    /\ proc' = [proc EXCEPT ![p] =
           [proc[p] EXCEPT !.pc = "ui_write",
                !.new_index = set_entry(index(index_file),
                                        proc[p].cached_file[1])]]
    /\ UNCHANGED <<source, blob_dir, blobs, tmp, leftover,
                   kills, budget, committed, last, quiet>>
    /\ UNCHANGED call

\* json.dump(index, f), close, and the release of the lock at the end of
\* the with block
update_index_write(p) ==
    /\ proc[p].pc = "ui_write"
    /\ index_file' = [exists |-> TRUE, valid |-> TRUE,
                      data |-> proc[p].new_index]
    /\ committed' = proc[p].new_index
    /\ lock' = exit_lock(lock, p, FALSE)
    /\ proc' = [proc EXCEPT ![p] =
           [proc[p] EXCEPT !.pc = "gh_open", !.new_index = EmptyIndex]]
    /\ UNCHANGED <<source, blob_dir, blobs, lock_file, tmp, leftover,
                   kills, budget, last, quiet>>
    /\ UNCHANGED call

\* get_handle: open(blob_path, mode='rb'); IOError when the blob is gone
get_handle_open(p) ==
    /\ proc[p].pc = "gh_open"
    /\ proc' = [proc EXCEPT ![p] =
           IF BlobExists(proc[p].blob_path)
           THEN [proc[p] EXCEPT !.pc = "done",
                     !.content = blobs[proc[p].blob_path]]
           ELSE [proc[p] EXCEPT !.pc = "done", !.ok = FALSE]]
    /\ UNCHANGED <<source, fs, kills, budget, committed, last, quiet>>
    /\ UNCHANGED call

\* The caller takes the result of get_handle or of the constructor.
Return(p) ==
    /\ proc[p].pc = "done"
    /\ proc' = [proc EXCEPT ![p] = Locals("idle")]
    /\ quiet' = quiet \ {p}
    /\ UNCHANGED <<source, fs, kills, budget, committed, last>>
    /\ UNCHANGED call

\* The same, with the result of a successful get_handle kept as history.
ReturnRecord(p) ==
    /\ proc[p].pc = "done"
    /\ last' = IF proc[p].op = "get" /\ proc[p].ok
               THEN [last EXCEPT ![proc[p].url] =
                        <<[token |-> proc[p].cached_file[1].unique_id,
                           content |-> proc[p].content]>>]
               ELSE last
    /\ proc' = [proc EXCEPT ![p] = Locals("idle")]
    /\ quiet' = quiet \ {p}
    /\ UNCHANGED <<source, fs, kills, budget, committed>>
    /\ UNCHANGED call

\* ------------------------------------------- __init__ and _prune_cache
\* FetcherCachingDownloader.__init__: os.path.exists(cache_blob_dir), then
\* _prune_cache, or mkdir_p alone when the directory is missing.
init_downloader(p) ==
    /\ proc[p].pc \in {"new", "idle"}
    /\ proc' = [proc EXCEPT ![p] =
           [Locals(IF blob_dir THEN "pr_lock" ELSE "done")
                EXCEPT !.op = "construct"]]
    /\ blob_dir' = TRUE
    /\ StartOp
    /\ quiet' = QuietAtStart(p)
    /\ UNCHANGED <<source, blobs, index_file, lock_file, lock, tmp,
                   leftover, kills, committed, last>>
    /\ UNCHANGED call

\* the entries kept by the sweep: those whose blob exists
pruned_index(base) ==
    [u \in {v \in DOMAIN base : BlobExists(get_blob_path(base[v]))} |->
        base[u]]

\* _prune_cache under the lock: new_index = self.index.copy(), the loop over
\* the entries (os.path.exists of each blob; blobs_in_use collects every
\* referenced path, also the missing ones), open(self.cache_index_file, 'w')
prune_open(p) ==
    /\ proc[p].pc = "pr_lock"
    /\ LockFree
    /\ lock' = p
    /\ lock_file' = TRUE
    /\ index_file' = [exists |-> TRUE, valid |-> FALSE, data |-> EmptyIndex]
    /\ LET base == index(index_file)
       IN proc' = [proc EXCEPT ![p] =
              [proc[p] EXCEPT !.pc = "pr_write", !.base = base,
                   !.new_index = pruned_index(base),
                   !.in_use = {get_blob_path(base[u]) : u \in DOMAIN base},
                   !.pre_blobs = blobs, !.pruned = TRUE]]
    /\ UNCHANGED <<source, blob_dir, blobs, tmp, leftover,
                   kills, budget, committed, last, quiet>>
    /\ UNCHANGED call

\* json.dump(new_index, f) and the release of the lock
prune_write(p) ==
    /\ proc[p].pc = "pr_write"
    /\ index_file' = [exists |-> TRUE, valid |-> TRUE,
                      data |-> proc[p].new_index]
    /\ committed' = proc[p].new_index
    /\ lock' = exit_lock(lock, p, FALSE)
    /\ proc' = [proc EXCEPT ![p] = [proc[p] EXCEPT !.pc = "pr_blobs"]]
    /\ UNCHANGED <<source, blob_dir, blobs, lock_file, tmp, leftover,
                   kills, budget, last, quiet>>
    /\ UNCHANGED call

\* a sweep that removes no blob
orphaned_blobs_none(all_blobs, blobs_in_use) == {}

\* orphaned_blobs = all_blobs.difference(blobs_in_use)
orphaned_blobs(all_blobs, blobs_in_use) == all_blobs \ blobs_in_use

\* all_blobs = os.listdir(cache_blob_dir) and orphaned_blobs, outside the
\* lock (with no orphan the loop over them does nothing)
prune_blobs(p) ==
    /\ proc[p].pc = "pr_blobs"
    /\ LET orphans == orphaned_blobs(DOMAIN blobs, proc[p].in_use)
       IN proc' = [proc EXCEPT ![p] =
              [proc[p] EXCEPT !.orphans = orphans,
                   !.pc = IF orphans = {} THEN "pr_top" ELSE "pr_unlink"]]
    /\ UNCHANGED <<source, fs, kills, budget, committed, last, quiet>>
    /\ UNCHANGED call

\* for blob in orphaned_blobs: os.unlink(blob).  When another sweep has
\* unlinked one of them since the listing, os.unlink raises OSError out of
\* the constructor, after any of the other orphans have been unlinked.
prune_unlink(p) ==
    /\ proc[p].pc = "pr_unlink"
    /\ LET there == proc[p].orphans \cap DOMAIN blobs
       IN IF there = proc[p].orphans
          THEN /\ blobs' = [h \in DOMAIN blobs \ there |-> blobs[h]]
               /\ proc' = [proc EXCEPT ![p] =
                      [proc[p] EXCEPT !.pc = "pr_top", !.orphans = {}]]
          ELSE \E gone \in SUBSET there :
               /\ blobs' = [h \in DOMAIN blobs \ gone |-> blobs[h]]
               /\ proc' = [proc EXCEPT ![p] =
                      [proc[p] EXCEPT !.pc = "done", !.ok = FALSE,
                           !.orphans = {}]]
    /\ UNCHANGED <<source, blob_dir, index_file, lock_file, lock, tmp,
                   leftover, kills, budget, committed, last, quiet>>
    /\ UNCHANGED call

\* expected_toplevel_files
expected_toplevel_files ==
    {<<"blobs">>, <<"cacheindex.json">>, <<"cacheindex.lock">>}

\* os.listdir(cache_dir) and os.unlink / shutil.rmtree of every entry that
\* is not expected: the temporary files of running downloads are among them
prune_toplevel(p) ==
    /\ proc[p].pc = "pr_top"
    /\ LET unknown == CacheRoot \ expected_toplevel_files
       IN /\ tmp' = [q \in Procs |->
                        IF <<"tmp", q>> \in unknown THEN <<>> ELSE tmp[q]]
          /\ leftover' = {q \in leftover : <<"old", q>> \notin unknown}
    /\ proc' = [proc EXCEPT ![p] = [proc[p] EXCEPT !.pc = "done"]]
    /\ UNCHANGED <<source, blob_dir, blobs, index_file, lock_file, lock,
                   kills, budget, committed, last, quiet>>
    /\ UNCHANGED call

\* ------------------------------------------------ errors under the lock
\* The with block of _update_index or of _prune_cache raises: open(.., 'w')
\* or a statement before it does (the index is as it was), or json.dump or
\* the close of the file does (the index stays truncated).  __exit__ runs,
\* and the exception leaves get_handle or the constructor.
index_raise(p) ==
    /\ \/ /\ proc[p].pc \in {"ui_lock", "pr_lock"}
          /\ LockFree
          /\ lock' = exit_lock(p, p, TRUE)
          /\ lock_file' = TRUE
          /\ UNCHANGED index_file
       \/ /\ proc[p].pc \in {"ui_write", "pr_write"}
          /\ lock' = exit_lock(lock, p, TRUE)
          /\ UNCHANGED <<lock_file, index_file>>
    /\ proc' = [proc EXCEPT ![p] =
           [proc[p] EXCEPT !.pc = "done", !.ok = FALSE, !.err = "index"]]
    /\ UNCHANGED <<source, blob_dir, blobs, tmp, leftover, kills, budget,
                   committed, last, quiet, call>>

\* ------------------------------------------------------- the environment
\* The remote object or the local file changes.
ChangeSource(u, v) ==
    /\ v \in Versions(u) \ {source[u]}
    /\ source' = [source EXCEPT ![u] = v]
    /\ UNCHANGED <<fs, proc, kills, budget, committed, last, quiet>>
    /\ UNCHANGED call

\* ... between the calls of a sequential caller
ChangeSourceIdle(u, v) ==
    /\ \A p \in Procs : proc[p].pc \in {"new", "idle"}
    /\ ChangeSource(u, v)

\* A process is killed inside an operation: the kernel drops its lock, its
\* temporary file stays in cache_dir, and a new process takes its place.
Kill(p) ==
    /\ kills < MaxKills
    /\ ~Inactive(p)
    /\ kills' = kills + 1
    /\ StartOp
    /\ lock' = IF lock = p THEN NoProc ELSE lock
    /\ leftover' = IF tmp[p] # <<>> THEN leftover \cup {p} ELSE leftover
    /\ tmp' = [tmp EXCEPT ![p] = <<>>]
    /\ proc' = [proc EXCEPT ![p] = Locals("new")]
    /\ quiet' = quiet \ {p}
    /\ UNCHANGED <<source, blob_dir, blobs, index_file, lock_file,
                   committed, last>>
    /\ UNCHANGED call

\* -------------------------------------------------------- specifications
GetStep(p) ==
    \/ \E u \in URLS : ensure_cached(p, u)
    \/ update_cache_begin(p)
    \/ update_cache_copy(p)
    \/ update_cache_publish(p)
    \/ update_index_open(p)
    \/ update_index_write(p)
    \/ get_handle_open(p)

PruneStep(p) ==
    \/ init_downloader(p)
    \/ prune_open(p)
    \/ prune_write(p)
    \/ prune_blobs(p)
    \/ prune_unlink(p)
    \/ prune_toplevel(p)

\* All processes, no kill
Next ==
    \/ \E p \in Procs : GetStep(p)
    \/ \E p \in Procs : PruneStep(p)
    \/ \E p \in Procs : Return(p)
    \/ \E u \in URLS : \E v \in Versions(u) : ChangeSource(u, v)

Spec == Init /\ [][Next]_vars

\* One process, the source changing between its calls
NextSeq ==
    \/ GetStep("p1")
    \/ PruneStep("p1")
    \/ ReturnRecord("p1")
    \/ \E u \in URLS : \E v \in Versions(u) : ChangeSourceIdle(u, v)

SpecSeq == InitCache(Unlimited) /\ [][NextSeq]_vars

\* Two processes that have built their downloaders on a new cache
\* directory one after the other (mkdir_p, then a sweep of the empty cache)
\* and now only download.
InitGet ==
    /\ budget = Unlimited
    /\ source \in [URLS -> HttpVersions \cup FileVersions]
    /\ \A u \in URLS : source[u] \in Versions(u)
    /\ blob_dir = TRUE
    /\ blobs = NoBlobs
    /\ index_file = [exists |-> TRUE, valid |-> TRUE, data |-> EmptyIndex]
    /\ lock_file = TRUE
    /\ lock = NoProc
    /\ tmp = [p \in Procs |-> <<>>]
    /\ leftover = {}
    /\ proc = [p \in Procs |-> Locals("idle")]
    /\ kills = 0
    /\ committed = EmptyIndex
    /\ last = [u \in URLS |-> <<>>]
    /\ quiet = {}
    /\ call = NoCall

NextGet ==
    \/ \E p \in Procs : GetStep(p)
    \/ \E p \in Procs : Return(p)
    \/ \E u \in URLS : \E v \in Versions(u) : ChangeSource(u, v)

SpecGet == InitGet /\ [][NextGet]_vars

\* All processes, with kills
NextCrash ==
    \/ Next
    \/ \E p \in Procs : Kill(p)

SpecCrash == Init /\ [][NextCrash]_vars


\* Two processes on a cache directory that exists, whose index writes can
\* fail; the sources do not change.  A process that can take a step takes it in the end; a process
\* that polls for the lock gets it if the lock is free again and again.
InitLock ==
    /\ budget = MaxOps
    /\ source = [u \in URLS |->
                    IF u = U_HTTP THEN [etag |-> 1, body |-> <<1>>]
                    ELSE [etag |-> None, body |-> <<2, 1>>]]
    /\ blob_dir = TRUE
    /\ blobs = NoBlobs
    /\ index_file = [exists |-> TRUE, valid |-> TRUE, data |-> EmptyIndex]
    /\ lock_file = TRUE
    /\ lock = NoProc
    /\ tmp = [p \in Procs |-> <<>>]
    /\ leftover = {}
    /\ proc = [p \in Procs |-> Locals("idle")]
    /\ kills = 0
    /\ committed = EmptyIndex
    /\ last = [u \in URLS |-> <<>>]
    /\ quiet = {}
    /\ call = NoCall

NextLock ==
    \/ \E p \in Procs : GetStep(p)
    \/ \E p \in Procs : PruneStep(p)
    \/ \E p \in Procs : Return(p)
    \/ \E p \in Procs : index_raise(p)

FairLock ==
    \A p \in Procs :
        /\ WF_vars(update_index_write(p) \/ prune_write(p))
        /\ SF_vars(update_index_open(p) \/ prune_open(p))

SpecLock == InitLock /\ [][NextLock]_vars /\ FairLock


\* ------------------------------------------------ the direct downloader
\* Sources of no content: an HTTP response with an empty body, an empty
\* local file
EmptyVersions(u) ==
    IF u = U_HTTP THEN {[etag |-> 3, body |-> <<>>]}
    ELSE {[etag |-> None, body |-> <<>>]}

AllVersions(u) == Versions(u) \cup EmptyVersions(u)

\* what reading file_fetcher.handle to its end gives: the body of the HTTP
\* response, the content of the local file
handle_content(u) == source[u].body

\* FetcherDirectDownloader.get_handle: return file_fetcher.handle
direct_get_handle(p, u) ==
    /\ proc[p].pc = "idle"
    /\ proc' = [proc EXCEPT ![p] =
           [Locals("done") EXCEPT !.op = "direct", !.url = u, !.nreads = 1,
                !.content = handle_content(u)]]
    /\ StartOp
    /\ quiet' = QuietAtStart(p)
    /\ UNCHANGED <<source, fs, kills, committed, last, call>>

\* One caller with a caching and a direct downloader; the sources change
\* between its calls and can be empty.
InitDirect ==
    /\ budget = Unlimited
    /\ source \in [URLS -> UNION {AllVersions(u) : u \in URLS}]
    /\ \A u \in URLS : source[u] \in AllVersions(u)
    /\ blob_dir = TRUE
    /\ blobs = NoBlobs
    /\ index_file = [exists |-> TRUE, valid |-> TRUE, data |-> EmptyIndex]
    /\ lock_file = TRUE
    /\ lock = NoProc
    /\ tmp = [p \in Procs |-> <<>>]
    /\ leftover = {}
    /\ proc = [p \in Procs |-> Locals("idle")]
    /\ kills = 0
    /\ committed = EmptyIndex
    /\ last = [u \in URLS |-> <<>>]
    /\ quiet = {}
    /\ call = NoCall

NextDirect ==
    \/ GetStep("p1")
    \/ \E u \in URLS : direct_get_handle("p1", u)
    \/ Return("p1")
    \/ \E u \in URLS : \E v \in AllVersions(u) : ChangeSourceIdle(u, v)

SpecDirect == InitDirect /\ [][NextDirect]_vars

\* One caller with a caching downloader whose downloads can fail in the
\* read of the strategy's handle; the sources change between its calls and
\* can be empty.
NextRaise ==
    \/ GetStep("p1")
    \/ handle_raise("p1")
    \/ Return("p1")
    \/ \E u \in URLS : \E v \in AllVersions(u) : ChangeSourceIdle(u, v)

SpecRaise == InitDirect /\ [][NextRaise]_vars


\* ============================================== URLs and the module's
\* ============================================== functions
\* An artifact string is the sequence of its lexical tokens: words, and the
\* delimiters ":", "//" (after the scheme), "/", "?", "&" and "=".
Delims == {":", "//", "/", "?", "&", "="}

cvars == <<source, blob_dir, blobs, index_file, lock_file, lock, tmp,
           leftover, proc, kills, budget, committed, last, quiet>>

\* str.find: the place of the first token among ts, 0 when there is none
Find(s, ts) ==
    IF \E i \in 1..Len(s) : s[i] \in ts
    THEN CHOOSE i \in 1..Len(s) :
             s[i] \in ts /\ \A j \in 1..(i - 1) : s[j] \notin ts
    ELSE 0

\* str.split(d)
RECURSIVE Split(_, _)
Split(s, d) ==
    LET i == Find(s, {d})
    IN IF i = 0 THEN <<s>>
       ELSE <<SubSeq(s, 1, i - 1)>> \o Split(SubSeq(s, i + 1, Len(s)), d)

\* str.lstrip(d)
RECURSIVE lstrip(_, _)
lstrip(s, d) ==
    IF s # <<>> /\ s[1] = d THEN lstrip(Tail(s), d) ELSE s

\* str.lower on a scheme
lower(w) ==
    IF w = "HTTP" THEN "http" ELSE IF w = "JENKINS" THEN "jenkins" ELSE w

\* urlparse: the scheme is the word before a leading ":" (lower-cased), the
\* netloc follows "//" up to the next "/" or "?", the query follows "?"
urlparse(a) ==
    LET has_scheme == Find(a, {":"}) = 2 /\ a[1] \notin Delims
        r1 == IF has_scheme THEN SubSeq(a, 3, Len(a)) ELSE a
        has_netloc == r1 # <<>> /\ r1[1] = "//"
        r2 == IF has_netloc THEN Tail(r1) ELSE r1
        e == IF Find(r2, {"/", "?"}) = 0 THEN Len(r2) + 1
             ELSE Find(r2, {"/", "?"})
        r3 == IF has_netloc THEN SubSeq(r2, e, Len(r2)) ELSE r2
        q == Find(r3, {"?"})
    IN [scheme |-> IF has_scheme THEN lower(a[1]) ELSE "",
        netloc |-> IF has_netloc THEN SubSeq(r2, 1, e - 1) ELSE <<>>,
        path |-> IF q = 0 THEN r3 ELSE SubSeq(r3, 1, q - 1),
        query |-> IF q = 0 THEN <<>> ELSE SubSeq(r3, q + 1, Len(r3))]

\* urllib's uses_netloc, as far as the schemes here go
uses_netloc == {"file", "http", "https"}

\* ParseResult.geturl
geturl(pu) ==
    (IF pu.scheme # "" THEN <<pu.scheme, ":">> ELSE <<>>)
    \o (IF pu.netloc # <<>>
           \/ (pu.scheme \in uses_netloc
               /\ ~(Len(pu.path) >= 2 /\ pu.path[1] = "/" /\ pu.path[2] = "/"))
        THEN <<"//">> \o pu.netloc ELSE <<>>)
    \o pu.path
    \o (IF pu.query # <<>> THEN <<"?">> \o pu.query ELSE <<>>)

\* parse_qs: the name=value pairs of the query in their order, without the
\* pairs of a blank value and the fields that are no pair
parse_qs(query) ==
    IF query = <<>> THEN <<>>
    ELSE SelectSeq(Split(query, "&"),
                   LAMBDA f : Len(f) = 3 /\ f[2] = "=")

\* the values of a parameter, in their order: parse_qs(..)[param]
qs_values(qs, param) ==
    LET fs_ == SelectSeq(qs, LAMBDA f : f[1] = param)
    IN [i \in 1..Len(fs_) |-> fs_[i][3]]

\* the names of a dict built from the pairs, in insertion order
RECURSIVE qs_names(_)
qs_names(qs) ==
    IF qs = <<>> THEN <<>>
    ELSE <<qs[1][1]>>
         \o qs_names(SelectSeq(Tail(qs), LAMBDA f : f[1] # qs[1][1]))

\* "&".join
RECURSIVE amp_join(_)
amp_join(fields) ==
    IF fields = <<>> THEN <<>>
    ELSE fields[1] \o (IF Len(fields) > 1 THEN <<"&">> ELSE <<>>)
         \o amp_join(Tail(fields))

\* urlencode(qs, True): name=value for every value of every name
RECURSIVE urlencode_from(_, _)
urlencode_from(qs, names) ==
    IF names = <<>> THEN <<>>
    ELSE LET mine == SelectSeq(qs, LAMBDA f : f[1] = names[1])
             rest == urlencode_from(qs, Tail(names))
         IN amp_join(mine) \o (IF rest # <<>> THEN <<"&">> ELSE <<>>) \o rest

urlencode(qs) == urlencode_from(qs, qs_names(qs))

\* AbstractFileFetcher.get_value_from_query_string
get_value_from_query_string(pu, param, default) ==
    LET vs == qs_values(parse_qs(pu.query), param)
    IN IF vs = <<>> THEN default ELSE vs[1]

\* ------------------------------------------------------------- fetcher
\* What a call gives back: the exception raised, or the value returned
Raise(e) == [raised |-> e, value |-> <<>>]
Value(v) == [raised |-> "none", value |-> <<v>>]
NoResult == [raised |-> "none", value |-> <<>>]

\* a factory without the https scheme
fetcher_class_without_https(scheme) ==
    IF scheme = "jenkins" THEN "JenkinsS3Fetcher"
    ELSE IF scheme = "schemabackup" THEN "SchemaBackupS3Fetcher"
    ELSE IF scheme = "http" THEN "HTTPFetcher"
    ELSE IF scheme = "s3" THEN "S3Fetcher"
    ELSE IF scheme = "s3prefix" THEN "PrefixS3Fetcher"
    ELSE IF scheme = "file" \/ scheme = "" THEN "LocalFileFetcher"
    ELSE ""

\* fetcher: the if/elif chain over parsed_url.scheme ("": the else branch)
fetcher_class(scheme) ==
    IF scheme = "jenkins" THEN "JenkinsS3Fetcher"
    ELSE IF scheme = "schemabackup" THEN "SchemaBackupS3Fetcher"
    ELSE IF scheme \in {"http", "https"} THEN "HTTPFetcher"
    ELSE IF scheme = "s3" THEN "S3Fetcher"
    ELSE IF scheme = "s3prefix" THEN "PrefixS3Fetcher"
    ELSE IF scheme = "file" \/ scheme = "" THEN "LocalFileFetcher"
    ELSE ""

\* The strategy object after __init__: its memo cells are empty
FileFetcher(kind, parsed_url, local_file_hint, authenticated) ==
    [kind |-> kind, parsed_url |-> parsed_url,
     local_file_hint |-> local_file_hint, authenticated |-> authenticated,
     key |-> <<>>, object |-> <<>>]

\* SchemaBackupS3Fetcher.__init__: components =
\* parsed_url.path.lstrip('/').split('/')
components(parsed_url) == Split(lstrip(parsed_url.path, "/"), "/")

\* the constructors: ValueError of SchemaBackupS3Fetcher for a path that
\* has not three components, and of os.path.relpath in
\* LocalFileFetcher.__init__ for a netloc with no path after it
construct(kind, parsed_url, local_file_hint, authenticated) ==
    IF kind = "SchemaBackupS3Fetcher" /\ Len(components(parsed_url)) # 3
    THEN Raise("ValueError")
    ELSE IF /\ kind = "LocalFileFetcher"
            /\ parsed_url.netloc # <<>>
            /\ lstrip(parsed_url.path, "/") = <<>>
    THEN Raise("ValueError")
    ELSE Value(FileFetcher(kind, parsed_url, local_file_hint,
                           IF kind \in {"HTTPFetcher", "LocalFileFetcher"}
                           THEN FALSE ELSE authenticated))

\* qs.pop(name, ..) that leaves the parameter in the dict
pop_nothing(qs, name) == qs

\* qs.pop(name, ..): the dict without the parameter
pop(qs, name) == SelectSeq(qs, LAMBDA f : f[1] # name)

\* fetcher(artifact, authenticated): local_file leaves the query (its first
\* value is the hint, <<>> for None), the rest is encoded again
fetcher(artifact, authenticated) ==
    LET parsed == urlparse(artifact)
        qs == parse_qs(parsed.query)
        hints == qs_values(qs, "local_file")
        local_file == IF hints = <<>> THEN <<>> ELSE <<hints[1]>>
        rest == pop(qs, "local_file")
        parsed_url == [parsed EXCEPT !.query = urlencode(rest)]
        kind == fetcher_class(parsed_url.scheme)
    IN IF kind = "" THEN Raise("InvalidArtifactError")
       ELSE construct(kind, parsed_url, local_file, authenticated)

\* A keyword argument with a default: <<>> when the caller leaves it out
default(arg, value) == IF arg = <<>> THEN value ELSE arg[1]

\* S3Fetcher.get_client: the client signs its requests with the
\* credentials of the environment, or is anonymous (UNSIGNED)
get_client(authenticated) ==
    IF authenticated THEN "authenticated" ELSE "anonymous"

\* A call of fetcher(artifact, authenticated=False)
fetcher_call ==
    /\ call.fn = "fetcher" /\ call.pc = "called"
    /\ call' = [call EXCEPT !.pc = "returned",
                    !.result = fetcher(call.artifact,
                                       default(call.authenticated, FALSE))]
    /\ UNCHANGED cvars

\* The artifact strings of the calls: every scheme of the table, two that
\* are not in it, upper case, and none; with and without netloc and query
Schemes ==
    {"jenkins", "schemabackup", "http", "https", "s3", "s3prefix", "file",
     "ftp", "gopher", "HTTP", "JENKINS", ""}
Locations ==
    { <<"//", "b", "/", "k">>,
      <<"//", "b", "/", "h", "/", "d", "/", "s">>,
      <<"//", "b", "/", "h", "/", "/", "s">>,
      <<"//", "b", "/", "h", "/", "d", "/">>,
      <<"//", "b">>,
      <<"/", "d", "/", "f.war">>,
      <<"f.war">> }
Queries ==
    { <<>>,
      <<"?", "local_file", "=", "out">>,
      <<"?", "pattern", "=", "p", "&", "local_file", "=", "out",
        "&", "local_file", "=", "out2">>,
      <<"?", "local_file", "=", "&", "pattern", "=", "p">> }
Artifacts ==
    { (IF sch = "" THEN <<>> ELSE <<sch, ":">>) \o loc \o q :
          sch \in Schemes, loc \in Locations, q \in Queries }

FetcherCalls ==
    { [fn |-> "fetcher", pc |-> "called", artifact |-> a,
       authenticated |-> au, result |-> NoResult] :
          a \in Artifacts, au \in {<<>>, <<TRUE>>, <<FALSE>>} }

\* the downloader's variables, when no downloader is in use
NoCache ==
    /\ budget = 0
    /\ source = [u \in URLS |->
                    IF u = U_HTTP THEN [etag |-> 1, body |-> <<1>>]
                    ELSE [etag |-> None, body |-> <<2, 1>>]]
    /\ blob_dir = FALSE
    /\ blobs = NoBlobs
    /\ index_file = [exists |-> FALSE, valid |-> FALSE, data |-> EmptyIndex]
    /\ lock_file = FALSE
    /\ lock = NoProc
    /\ tmp = [p \in Procs |-> <<>>]
    /\ leftover = {}
    /\ proc = [p \in Procs |-> Locals("new")]
    /\ kills = 0
    /\ committed = EmptyIndex
    /\ last = [u \in URLS |-> <<>>]
    /\ quiet = {}

InitFetcher == NoCache /\ call \in FetcherCalls

NextFetcher == fetcher_call

SpecFetcher == InitFetcher /\ [][NextFetcher]_vars


\* ------------------------------------------------ resolving strategies
\* An S3 key is the sequence of its "/"-separated segments, a segment the
\* sequence of its words (a numeral is one word, ".war" and ".txt" are the
\* suffixes).
MaxKeys == 3               \* objects in one listing

\* the key as the tokens of a URL path: "/".join(segments)
RECURSIVE key_tokens(_)
key_tokens(key) ==
    IF key = <<>> THEN <<>>
    ELSE key[1] \o (IF Len(key) > 1 THEN <<"/">> ELSE <<>>)
         \o key_tokens(Tail(key))

\* KeyResolutionError(reason_code, message)
KeyResolutionError(code) ==
    [raised |-> "KeyResolutionError", reason_code |-> code, value |-> <<>>]

\* listing pages of one page only: the later pages are never asked for
paginate_first_page(keys, page_size) ==
    SubSeq(keys, 1, IF page_size < Len(keys) THEN page_size ELSE Len(keys))

\* the pages that list_objects_v2 answers with: page_size objects each
RECURSIVE pages_of(_, _)
pages_of(keys, page_size) ==
    IF Len(keys) <= page_size THEN (IF keys = <<>> THEN <<>> ELSE <<keys>>)
    ELSE <<SubSeq(keys, 1, page_size)>>
         \o pages_of(SubSeq(keys, page_size + 1, Len(keys)), page_size)

RECURSIVE concat(_)
concat(pages) ==
    IF pages = <<>> THEN <<>> ELSE pages[1] \o concat(Tail(pages))

\* _paginate: every item of every page, in order
paginate(keys, page_size) == concat(pages_of(keys, page_size))

\* the patterns of the filename_pattern parameter: the default and another
WarPattern == "^.*[.]war$"
TxtPattern == "^.*[.]txt$"

\* a pattern that every key matches
re_match_any(pattern, key) == TRUE

\* re.match(filename_pattern, key) for these patterns: the key ends with
\* the suffix
re_match(pattern, key) ==
    /\ key # <<>> /\ key[Len(key)] # <<>>
    /\ LET seg == key[Len(key)]
       IN seg[Len(seg)] = (IF pattern = WarPattern THEN ".war" ELSE ".txt")

\* the characters of the numerals in use
chars(w) ==
    CASE w = "10" -> <<"1", "0">>
      [] w = "20" -> <<"2", "0">>
      [] OTHER -> <<w>>

digit(c) ==
    CASE c = "0" -> 0 [] c = "1" -> 1 [] c = "2" -> 2 [] c = "3" -> 3
      [] c = "4" -> 4 [] c = "5" -> 5 [] c = "6" -> 6 [] c = "7" -> 7
      [] c = "8" -> 8 [] c = "9" -> 9

RECURSIVE decimal(_)
decimal(cs) ==
    IF cs = <<>> THEN 0
    ELSE 10 * decimal(SubSeq(cs, 1, Len(cs) - 1)) + digit(cs[Len(cs)])

\* a numeral read by its first digit alone
int_first_digit(numeral) == digit(chars(numeral[1])[1])

\* int(): the value of a segment that is one decimal numeral
int(numeral) == decimal(chars(numeral[1]))

\* sorted(items, key=..): items are [k, v] with the sort key k; stable
RECURSIVE insert_sorted(_, _)
insert_sorted(s, x) ==
    IF s = <<>> THEN <<x>>
    ELSE IF x.k < s[1].k THEN <<x>> \o s
    ELSE <<s[1]>> \o insert_sorted(Tail(s), x)

RECURSIVE sorted(_)
sorted(items) ==
    IF items = <<>> THEN <<>>
    ELSE insert_sorted(sorted(SubSeq(items, 1, Len(items) - 1)),
                       items[Len(items)])

\* JenkinsS3Fetcher.key_parse_pattern.match(key).groupdict(), for a key of
\* at least four segments that begins with "jobs"
key_parse(key) ==
    [job_name |-> key[2], build_number |-> key[3],
     basename |-> SubSeq(key, 4, Len(key))]

\* JenkinsS3Fetcher._get_matching_builds
get_matching_builds(all_builds, filename_pattern) ==
    LET matching_keys == SelectSeq(all_builds,
                             LAMBDA a : re_match(filename_pattern, a.Key))
    IN sorted([i \in 1..Len(matching_keys) |->
                  [k |-> int(key_parse(matching_keys[i].Key).build_number),
                   v |-> key_parse(matching_keys[i].Key)]])

\* the numerals in use: the segments that int() takes
Numerals == {<<"2">>, <<"7">>, <<"9">>, <<"10">>, <<"20">>}

\* JenkinsS3Fetcher.key_parse_pattern.match(key) is not None:
\* ^jobs/(?P<job_name>[^/]+)/(?P<build_number>[^/]+)/(?P<basename>.*)$
key_parse_pattern_match(key) ==
    /\ Len(key) >= 4
    /\ key[1] = <<"jobs">>
    /\ key[2] # <<>>
    /\ key[3] # <<>>

\* JenkinsS3Fetcher._get_key.  sorted() in _get_matching_builds first
\* takes all of the generator, where .groupdict() of a match that is None
\* raises AttributeError, and then calls the key function on every member,
\* where int() of a build number that is no numeral raises ValueError;
\* _get_key catches IndexError only.
jenkins_get_key(ff, s3) ==
    LET all_builds == paginate(s3.keys, s3.page_size)
        filename_pattern ==
            get_value_from_query_string(ff.parsed_url, "pattern", WarPattern)
        matching_keys == SelectSeq(all_builds,
                             LAMBDA a : re_match(filename_pattern, a.Key))
        builds == get_matching_builds(all_builds, filename_pattern)
        latest == builds[Len(builds)].v
    IN [lists |-> << << <<"jobs">>, lstrip(ff.parsed_url.path, "/") >> >>,
        gets |-> <<>>,
        result |->
           IF all_builds = <<>> THEN KeyResolutionError("NO_RESULTS")
           ELSE IF \E i \in DOMAIN matching_keys :
                      ~key_parse_pattern_match(matching_keys[i].Key)
           THEN Raise("AttributeError")
           ELSE IF \E i \in DOMAIN matching_keys :
                      key_parse(matching_keys[i].Key).build_number
                          \notin Numerals
           THEN Raise("ValueError")
           ELSE IF builds = <<>>
           THEN KeyResolutionError("NO_MATCHING_BUILDS")
           ELSE Value(<< <<"jobs">>, latest.job_name, latest.build_number >>
                      \o latest.basename)]

\* packaging.version.parse(key) as an order: keys that differ in one
\* numeral are ordered by its value (the numeral is the word before the
\* suffix of the last segment)
version_parse(key) ==
    LET seg == key[Len(key)]
    IN decimal(chars(seg[Len(seg) - 1]))

\* PrefixS3Fetcher.sortmethod: the key function, "" for the ValueError
sortmethod(ff) ==
    LET method_string ==
            get_value_from_query_string(ff.parsed_url, "sortmethod", "newest")
    IN IF method_string \in {"newest", "version"} THEN method_string ELSE ""

\* PrefixS3Fetcher._get_key with _get_latest_matching_key: self.sortmethod
\* is read when sorted() is called, after the test of the empty listing
prefix_get_key(ff, s3) ==
    LET all_builds == paginate(s3.keys, s3.page_size)
        filename_pattern ==
            get_value_from_query_string(ff.parsed_url, "pattern", WarPattern)
        matching_keys == SelectSeq(all_builds,
                             LAMBDA a : re_match(filename_pattern, a.Key))
        method == sortmethod(ff)
        sorted_keys ==
            sorted([i \in 1..Len(matching_keys) |->
                       [k |-> IF method = "newest"
                              THEN matching_keys[i].LastModified
                              ELSE version_parse(matching_keys[i].Key),
                        v |-> matching_keys[i]]])
    IN [lists |-> << <<lstrip(ff.parsed_url.path, "/")>> >>,
        gets |-> <<>>,
        result |->
           IF all_builds = <<>> THEN KeyResolutionError("NO_RESULTS")
           ELSE IF method = "" THEN Raise("ValueError")
           ELSE IF sorted_keys = <<>>
           THEN KeyResolutionError("NO_MATCHING_KEYS")
           ELSE Value(sorted_keys[Len(sorted_keys)].v.Key)]

\* an order of the numerals by their value
str_order_numeric(w) == decimal(chars(w))

\* the order of str on the numerals: character by character, a shorter
\* string before its extensions (as a number, two characters wide)
str_order(w) ==
    LET cs == chars(w)
    IN 11 * (digit(cs[1]) + 1) + (IF Len(cs) > 1 THEN digit(cs[2]) + 1 ELSE 0)

\* posixpath.relpath(c['Prefix'], prefix): the segment after the prefix
\* (the common prefixes end with "/", so their last segment is empty)
relpath(common_prefix, prefix) == common_prefix[Len(prefix)]

\* c['Prefix'].startswith(prefix): prefix ends with an empty segment too
startswith(common_prefix, prefix) ==
    /\ Len(common_prefix) >= Len(prefix)
    /\ SubSeq(common_prefix, 1, Len(prefix) - 1)
           = SubSeq(prefix, 1, Len(prefix) - 1)

\* botocore.exceptions.ClientError: the error object, known by the code
\* of its response
ClientError(code) == [raised |-> "ClientError", code |-> code, value |-> <<>>]

\* the except clause of the probe, with every error taken as not found
probe_error_all_not_found(code) == KeyResolutionError("SCHEMA_NOT_FOUND")

\* SchemaBackupS3Fetcher._get_key, the except clause of the probe:
\* NoSuchKey becomes SCHEMA_NOT_FOUND, a bare raise passes the others on
probe_error(code) ==
    IF code = "NoSuchKey" THEN KeyResolutionError("SCHEMA_NOT_FOUND")
    ELSE ClientError(code)

\* the checks of the backup strategy with the timestamp looked at first
get_key_checks_timestamp_first(host_listed, any_timestamp, timestamp_listed) ==
    IF ~timestamp_listed THEN "TIMESTAMP_NOT_FOUND"
    ELSE IF ~host_listed THEN "HOST_NOT_FOUND"
    ELSE IF ~any_timestamp THEN "NO_TIMESTAMPS"
    ELSE "none"

\* SchemaBackupS3Fetcher._get_key, the order of its checks: the first
\* that fails raises its KeyResolutionError
get_key_checks(host_listed, any_timestamp, timestamp_listed) ==
    IF ~host_listed THEN "HOST_NOT_FOUND"
    ELSE IF ~any_timestamp THEN "NO_TIMESTAMPS"
    ELSE IF ~timestamp_listed THEN "TIMESTAMP_NOT_FOUND"
    ELSE "none"

\* SchemaBackupS3Fetcher._get_key: two listings of common prefixes (one
\* page each), the choice of the timestamp, and the probe by get_object.
\* lists and gets are the calls of list_objects_v2 (by prefix) and of
\* get_object (by key) that have been made when it returns or raises.
schemabackup_get_key(ff, s3) ==
    LET comps == components(ff.parsed_url)
        host == comps[1]
        database == comps[2]
        schema == comps[3]
        timestamp ==
            get_value_from_query_string(ff.parsed_url, "timestamp", "LATEST")
        host_prefix == << <<"backups">>, <<>> >>
        host_cps == SelectSeq(s3.hosts,
                              LAMBDA c : startswith(c, host_prefix))
        all_hosts == {relpath(host_cps[i], host_prefix) :
                          i \in 1..Len(host_cps)}
        base_prefix == << <<"backups">>, host, <<"pgsql">>, <<>> >>
        ts_cps == SelectSeq(s3.timestamps,
                            LAMBDA c : startswith(c, base_prefix))
        all_timestamps ==
            sorted([i \in 1..Len(ts_cps) |->
                       [k |-> str_order(relpath(ts_cps[i], base_prefix)[1]),
                        v |-> relpath(ts_cps[i], base_prefix)]])
        listed == {all_timestamps[i].v : i \in 1..Len(all_timestamps)}
        selected_timestamp ==
            IF timestamp = "LATEST"
            THEN all_timestamps[Len(all_timestamps)].v
            ELSE <<timestamp>>
        key_name == << <<"backups">>, host, <<"pgsql">>, selected_timestamp,
                       database, schema \o <<".dump">> >>
        failed == get_key_checks(host \in all_hosts, all_timestamps # <<>>,
                                 timestamp = "LATEST"
                                     \/ <<timestamp>> \in listed)
    IN IF failed = "HOST_NOT_FOUND"
       THEN [lists |-> <<host_prefix>>, gets |-> <<>>,
             result |-> KeyResolutionError("HOST_NOT_FOUND")]
       ELSE IF failed = "NO_TIMESTAMPS"
       THEN [lists |-> <<host_prefix, base_prefix>>, gets |-> <<>>,
             result |-> KeyResolutionError("NO_TIMESTAMPS")]
       ELSE IF failed = "TIMESTAMP_NOT_FOUND"
       THEN [lists |-> <<host_prefix, base_prefix>>, gets |-> <<>>,
             result |->
                [raised |-> "KeyResolutionError",
                 reason_code |-> "TIMESTAMP_NOT_FOUND",
                 candidates |-> [i \in 1..Len(all_timestamps) |->
                                    all_timestamps[i].v],
                 value |-> <<>>]]
       ELSE [lists |-> <<host_prefix, base_prefix>>, gets |-> <<key_name>>,
             result |->
                IF s3.get_object = "ok" THEN Value(key_name)
                ELSE probe_error(s3.get_object)]

\* BaseResolvingS3Fetcher._get_key of the three subclasses
get_key(ff, s3) ==
    IF ff.kind = "JenkinsS3Fetcher" THEN jenkins_get_key(ff, s3)
    ELSE IF ff.kind = "PrefixS3Fetcher" THEN prefix_get_key(ff, s3)
    ELSE schemabackup_get_key(ff, s3)

\* BaseResolvingS3Fetcher.real_parsed_url and real_url:
\* ParseResult('s3', self.bucket, self.path, '', '', '').geturl()
resolved_url(ff, key) ==
    geturl([scheme |-> "s3", netloc |-> ff.parsed_url.netloc,
            path |-> <<"/">> \o key_tokens(key), query |-> <<>>])

\* fetcher.real_url is read: the path property resolves the key at the
\* first access and keeps it
real_url_access ==
    /\ call.fn = "real_url" /\ call.pc = "called"
    /\ LET r == get_key(call.ff, call.s3)
       IN call' = [call EXCEPT
              !.pc = "returned",
              !.lists = call.lists \o r.lists,
              !.gets = call.gets \o r.gets,
              !.ff = IF r.result.raised = "none"
                     THEN [call.ff EXCEPT !.key = r.result.value]
                     ELSE call.ff,
              !.result = IF r.result.raised = "none"
                         THEN Value(resolved_url(call.ff, r.result.value[1]))
                         ELSE r.result]
    /\ UNCHANGED cvars

\* fetcher.object is read (by unique_id and handle): the inner S3Fetcher
\* is built from real_parsed_url, which resolves the key, and its object
\* property calls get_object; S3Fetcher._get_object turns a ClientError
\* into AuthenticationError
object_access ==
    /\ call.fn = "object" /\ call.pc = "called"
    /\ LET r == get_key(call.ff, call.s3)
       IN call' =
            IF r.result.raised # "none"
            THEN [call EXCEPT !.pc = "returned",
                      !.lists = call.lists \o r.lists,
                      !.gets = call.gets \o r.gets, !.result = r.result]
            ELSE [call EXCEPT
                      !.pc = "returned",
                      !.lists = call.lists \o r.lists,
                      !.gets = call.gets \o r.gets \o r.result.value,
                      !.ff = [call.ff EXCEPT !.key = r.result.value,
                                  !.object = IF call.s3.get_object = "ok"
                                             THEN r.result.value ELSE <<>>],
                      !.result = IF call.s3.get_object = "ok"
                                 THEN Value(r.result.value[1])
                                 ELSE Raise("AuthenticationError")]
    /\ UNCHANGED cvars

\* S3Fetcher._get_object: the object of the key, and AuthenticationError
\* for every ClientError of get_object, whatever its code
S3Fetcher_get_object(s3, key) ==
    IF s3.get_object = "ok" THEN Value(key)
    ELSE Raise("AuthenticationError")

\* S3Fetcher.object is read (by unique_id and handle) for the first time:
\* the key is the path of the URL without its leading slash
s3_object_access ==
    /\ call.fn = "s3_object" /\ call.pc = "called"
    /\ LET key == lstrip(call.ff.parsed_url.path, "/")
           r == S3Fetcher_get_object(call.s3, key)
       IN call' = [call EXCEPT
              !.pc = "returned",
              !.gets = call.gets \o <<key>>,
              !.ff = [call.ff EXCEPT
                         !.object = IF r.raised = "none" THEN <<key>>
                                    ELSE <<>>],
              !.result = r]
    /\ UNCHANGED cvars

\* ------------------------------------------- what the bucket answers
\* the sequences of at most n members of S, no member twice
DistinctSeqs(S, n) ==
    {s \in UNION {[1..m -> S] : m \in 0..n} :
        \A i \in DOMAIN s : \A j \in DOMAIN s : i # j => s[i] # s[j]}

PageSizes == {1, 2}

\* Keys under the prefix "jobs/j": of job j and of job j2
JenkinsKeys ==
    { << <<"jobs">>, job, <<build>>, <<"a", suffix>> >> :
          job \in {<<"j">>, <<"j", "2">>}, build \in {"2", "10"},
          suffix \in {".war", ".txt"} }

\* Objects under the prefix "p": key and time of the last modification
PrefixObjects ==
    { [Key |-> << <<"p">>, <<"v", n, suffix>> >>, LastModified |-> t] :
          n \in {"2", "10"}, suffix \in {".war", ".txt"}, t \in {1, 2} }

HostPrefixes ==
    { << <<"backups">>, host, <<>> >> : host \in {<<"h">>, <<"h", "2">>} }

TimestampPrefixes ==
    { << <<"backups">>, <<"h">>, <<"pgsql">>, <<ts>>, <<>> >> :
          ts \in {"9", "10", "20"} }

Bucket(keys, page_size, hosts, timestamps, get_object) ==
    [keys |-> keys, page_size |-> page_size, hosts |-> hosts,
     timestamps |-> timestamps, get_object |-> get_object]

\* what get_object answers with: the object, or a ClientError of that code
Answers == {"ok", "NoSuchKey", "AccessDenied", "InternalError"}

\* the artifacts of the resolving strategies
Artifact(scheme, path, query) == <<scheme, ":", "//", "b", "/">> \o path \o query

JenkinsArtifacts ==
    { Artifact("jenkins", <<"j">>, q) :
          q \in { <<>>, <<"?", "pattern", "=", TxtPattern>> } }

PrefixArtifacts ==
    { Artifact("s3prefix", <<"p">>, q) :
          q \in { <<>>,
                  <<"?", "sortmethod", "=", "newest">>,
                  <<"?", "sortmethod", "=", "version">>,
                  <<"?", "sortmethod", "=", "oldest">>,
                  <<"?", "pattern", "=", TxtPattern, "&",
                    "sortmethod", "=", "version">> } }

BackupArtifacts ==
    { Artifact("schemabackup", <<"h", "/", "d", "/", "s">>, q) :
          q \in { <<>> } \cup
                { <<"?", "timestamp", "=", t>> : t \in {"LATEST", "10", "7"} } }

\* A strategy from the factory and a first read of its real_url or object
ResolveCall(fn, artifact, s3) ==
    [fn |-> fn, pc |-> "called", ff |-> fetcher(artifact, FALSE).value[1],
     s3 |-> s3, lists |-> <<>>, gets |-> <<>>, result |-> NoResult]

\* the listings of the three strategies, the keys of a listing distinct
InitJenkins(fn, answer) ==
    \E a \in JenkinsArtifacts : \E n \in PageSizes :
    \E ks \in DistinctSeqs(JenkinsKeys, MaxKeys) :
        call = ResolveCall(fn, a,
                   Bucket([i \in DOMAIN ks |->
                              [Key |-> ks[i], LastModified |-> 1]],
                          n, <<>>, <<>>, answer))

InitPrefix(fn, answer) ==
    \E a \in PrefixArtifacts : \E n \in PageSizes :
    \E os \in DistinctSeqs(PrefixObjects, MaxKeys) :
        /\ \A i \in DOMAIN os : \A j \in DOMAIN os :
               i # j => os[i].Key # os[j].Key
        /\ call = ResolveCall(fn, a, Bucket(os, n, <<>>, <<>>, answer))

InitBackup(fn, answer) ==
    \E a \in BackupArtifacts :
    \E hs \in DistinctSeqs(HostPrefixes, 2) :
    \E ts \in DistinctSeqs(TimestampPrefixes, MaxKeys) :
        call = ResolveCall(fn, a, Bucket(<<>>, 1, hs, ts, answer))

\* an S3Fetcher of a key, whose object is read
InitS3(answer) ==
    \E k \in {"k", "k2"} :
        call = ResolveCall("s3_object", Artifact("s3", <<"d", "/", k>>, <<>>),
                           Bucket(<<>>, 1, <<>>, <<>>, answer))

\* Keys under the prefix "jobs/j" of other shapes beside those of two
\* builds: jobs/j/x/a.war, whose build is no number, jobs/j.war and
\* jobs/j.txt, which have no build and no basename
ShapedKeys ==
    { << <<"jobs">>, <<"j">>, <<"2">>, <<"a", ".war">> >>,
      << <<"jobs">>, <<"j">>, <<"10">>, <<"a", ".war">> >>,
      << <<"jobs">>, <<"j">>, <<"x">>, <<"a", ".war">> >>,
      << <<"jobs">>, <<"j", ".war">> >>,
      << <<"jobs">>, <<"j", ".txt">> >> }

\* a jenkins strategy on a bucket that answers every call, with keys of
\* any of these shapes
InitJenkinsKeys ==
    /\ NoCache
    /\ \E fn \in {"real_url", "object"} :
       \E a \in JenkinsArtifacts : \E n \in PageSizes :
       \E ks \in DistinctSeqs(ShapedKeys, MaxKeys) :
           call = ResolveCall(fn, a,
                      Bucket([i \in DOMAIN ks |->
                                 [Key |-> ks[i], LastModified |-> 1]],
                             n, <<>>, <<>>, "ok"))

NextJenkinsKeys ==
    \/ real_url_access
    \/ object_access

SpecJenkinsKeys == InitJenkinsKeys /\ [][NextJenkinsKeys]_vars

InitResolve ==
    /\ NoCache
    /\ \E answer \in Answers :
           \/ \E fn \in {"real_url", "object"} :
                  \/ InitJenkins(fn, answer)
                  \/ InitPrefix(fn, answer)
                  \/ InitBackup(fn, answer)
           \/ InitS3(answer)

NextResolve ==
    \/ real_url_access
    \/ object_access
    \/ s3_object_access

SpecResolve == InitResolve /\ [][NextResolve]_vars

\* ------------------------------------------------------- download_file

\* A path of the destination directory: no file, or a file and its bytes
Absent == [exists |-> FALSE, data |-> <<>>]
File(data) == [exists |-> TRUE, data |-> data]

\* what the remote object, page or source file holds, and what a
\* destination file held before the call
Body == <<1>>
OldBody == <<9>>

\* os.path.basename: what follows the last slash
basename(url) ==
    LET slashes == {i \in 1..Len(url) : url[i] \in {"/", "//"}}
        at == IF slashes = {} THEN 0
              ELSE CHOOSE i \in slashes : \A j \in slashes : j <= i
    IN SubSeq(url, at + 1, Len(url))

\* os.path.abspath of a relative path: under the working directory
Cwd == <<"/", "cwd">>

\* LocalFileFetcher.__init__ without its first case: the netloc is lost
local_path_without_netloc(parsed_url) ==
    IF parsed_url.path # <<>> /\ parsed_url.path[1] = "/"
    THEN parsed_url.path
    ELSE Cwd \o <<"/">> \o parsed_url.path

\* LocalFileFetcher.__init__: self.path
local_path(parsed_url) ==
    IF parsed_url.netloc # <<>>
    THEN Cwd \o <<"/">> \o parsed_url.netloc \o <<"/">>
         \o lstrip(parsed_url.path, "/")
    ELSE IF parsed_url.path # <<>> /\ parsed_url.path[1] = "/"
    THEN parsed_url.path
    ELSE Cwd \o <<"/">> \o parsed_url.path

ResolvingKinds == {"JenkinsS3Fetcher", "PrefixS3Fetcher", "SchemaBackupS3Fetcher"}

\* a resolving strategy whose path has not been read: self._key is None
needs_key(ff) == ff.kind \in ResolvingKinds /\ ff.key = <<>>

\* fetcher_.real_url: the path of a local file, the S3 URL of the key of
\* a resolving strategy (self.path, once it is resolved), else the URL
read_real_url(ff) ==
    IF ff.kind = "LocalFileFetcher" THEN local_path(ff.parsed_url)
    ELSE IF ff.kind \in ResolvingKinds THEN resolved_url(ff, ff.key[1])
    ELSE geturl(ff.parsed_url)

\* fetcher_.handle, which FetcherDirectDownloader.get_handle returns: the
\* response of requests.get after raise_for_status, the local file opened
\* for reading, or the Body of get_object, where a ClientError becomes
\* AuthenticationError
read_handle(ff, s3, origin) ==
    IF ff.kind = "HTTPFetcher"
    THEN IF origin = "ok" THEN Value(Body) ELSE Raise("HTTPError")
    ELSE IF ff.kind = "LocalFileFetcher"
    THEN IF origin = "ok" THEN Value(Body) ELSE Raise("IOError")
    ELSE IF s3.get_object = "ok" THEN Value(Body)
    ELSE Raise("AuthenticationError")

\* download_file, lines 126-127, with the hint before the argument
local_file_source_hint_first(local_file, local_file_hint) ==
    IF local_file_hint # <<>> THEN "hint"
    ELSE IF local_file # <<>> THEN "argument"
    ELSE "real_url"

\* download_file, lines 126-127: where the name of the destination comes
\* from (<<>> stands for None)
local_file_source(local_file, local_file_hint) ==
    IF local_file # <<>> THEN "argument"
    ELSE IF local_file_hint # <<>> THEN "hint"
    ELSE "real_url"

\* the call has raised e
df_raise(r) == [call EXCEPT !.pc = "returned", !.result = r]

\* fetcher_ = fetcher(artifact, authenticated);
\* downloader = fetcher_downloader(cache_dir), cache_dir being None
df_fetcher ==
    /\ call.fn = "download_file" /\ call.pc = "called"
    /\ LET r == fetcher(call.artifact, default(call.authenticated, FALSE))
       IN call' = IF r.raised # "none" THEN df_raise(r)
                  ELSE [call EXCEPT !.pc = "local_file", !.ff = r.value]
    /\ UNCHANGED cvars

\* BaseResolvingS3Fetcher.path, read for the first time by real_url or by
\* the inner fetcher of handle: self._key = self._get_key(), whose
\* exception leaves download_file
df_path ==
    /\ call.fn = "download_file" /\ call.pc = "path"
    /\ LET r == get_key(call.ff[1], call.s3).result
       IN call' = IF r.raised # "none" THEN df_raise(r)
                  ELSE [call EXCEPT !.pc = call.then,
                            !.ff = <<[call.ff[1] EXCEPT !.key = r.value]>>]
    /\ UNCHANGED cvars

\* if local_file is None: local_file = fetcher_.local_file_hint if
\* fetcher_.local_file_hint else os.path.basename(fetcher_.real_url)
df_local_file ==
    /\ call.fn = "download_file" /\ call.pc = "local_file"
    /\ LET ff == call.ff[1]
           from == local_file_source(call.local_file, ff.local_file_hint)
       IN call' =
            IF from = "argument"
            THEN [call EXCEPT !.pc = "open", !.name = call.local_file]
            ELSE IF from = "hint"
            THEN [call EXCEPT !.pc = "open", !.name = <<ff.local_file_hint>>]
            ELSE IF needs_key(ff)
            THEN [call EXCEPT !.pc = "path", !.then = "local_file"]
            ELSE [call EXCEPT !.pc = "open",
                      !.name = <<basename(read_real_url(ff))>>]
    /\ UNCHANGED cvars

\* with open(local_file, 'wb') as f: the file is created, or truncated;
\* the empty name is no file
df_open ==
    /\ call.fn = "download_file" /\ call.pc = "open"
    /\ call' = IF call.name[1] = <<>> THEN df_raise(Raise("IOError"))
               ELSE [call EXCEPT !.pc = "copy",
                         !.dest = (call.name[1] :> File(<<>>)) @@ call.dest]
    /\ UNCHANGED cvars

\* shutil.copyfileobj(downloader.get_handle(fetcher_), f), and the file
\* is closed as the with block is left, also by an exception
df_copy ==
    /\ call.fn = "download_file" /\ call.pc = "copy"
    /\ LET h == read_handle(call.ff[1], call.s3, call.origin)
       IN call' =
            IF needs_key(call.ff[1])
            THEN [call EXCEPT !.pc = "path", !.then = "copy"]
            ELSE IF h.raised # "none" THEN df_raise(h)
            ELSE [call EXCEPT !.pc = "return",
                      !.dest = (call.name[1] :> File(h.value[1]))
                               @@ call.dest]
    /\ UNCHANGED cvars

\* return {'local_file': local_file, 'real_url': fetcher_.real_url}
df_return ==
    /\ call.fn = "download_file" /\ call.pc = "return"
    /\ call' = [call EXCEPT !.pc = "returned",
                    !.result = Value([local_file |-> call.name[1],
                                      real_url |-> read_real_url(call.ff[1])])]
    /\ UNCHANGED cvars

\* what is in the destination directory at a path
path_state(name) ==
    IF name \in DOMAIN call.dest THEN call.dest[name] ELSE call.before

\* the artifacts downloaded: one of each scheme, one of no strategy, a
\* URL that ends in a slash; with and without the local_file parameter.
\* The local files are in a directory d, not where the download goes
DownloadLocations ==
    { <<"jenkins", ":", "//", "b", "/", "j">>,
      <<"s3prefix", ":", "//", "b", "/", "p">>,
      <<"schemabackup", ":", "//", "b", "/", "h", "/", "d", "/", "s">>,
      <<"schemabackup", ":", "//", "b", "/", "h">>,
      <<"s3", ":", "//", "b", "/", "k">>,
      <<"http", ":", "//", "b", "/", "d", "/", "f.war">>,
      <<"https", ":", "//", "b", "/">>,
      <<"file", ":", "//", "d", "/", "f.war">>,
      <<"/", "d", "/", "f.war">>,
      <<"d", "/", "f.war">>,
      <<"ftp", ":", "//", "b", "/", "k">> }

DownloadQueries ==
    { <<>>,
      <<"?", "local_file", "=", "out">>,
      <<"?", "local_file", "=", "out", "&", "local_file", "=", "out2">>,
      <<"?", "local_file", "=">>,
      <<"?", "v", "=", "1">> }

\* what the bucket lists for the artifact, by its scheme
DownloadBuckets(artifact, answer) ==
    LET war(job, build) == [Key |-> << <<"jobs">>, job, <<build>>,
                                       <<"a", ".war">> >>,
                            LastModified |-> 1]
        txt == [Key |-> << <<"jobs">>, <<"j">>, <<"2">>, <<"a", ".txt">> >>,
                LastModified |-> 1]
        obj(s) == [Key |-> << <<"p">>, <<"v", "2", s>> >>, LastModified |-> 1]
    IN IF artifact[1] = "jenkins"
       THEN { Bucket(ks, 2, <<>>, <<>>, answer) :
                  ks \in { <<>>, <<txt>>,
                           <<war(<<"j">>, "10"), war(<<"j">>, "2")>> } }
       ELSE IF artifact[1] = "s3prefix"
       THEN { Bucket(ks, 2, <<>>, <<>>, answer) :
                  ks \in { <<>>, <<obj(".txt")>>, <<obj(".war")>> } }
       ELSE IF artifact[1] = "schemabackup"
       THEN { Bucket(<<>>, 1, hs, ts, answer) :
                  hs \in DistinctSeqs(HostPrefixes, 1),
                  ts \in DistinctSeqs(TimestampPrefixes, 1) }
       ELSE { Bucket(<<>>, 1, <<>>, <<>>, answer) }

\* A call of download_file(artifact, local_file, authenticated) without a
\* cache directory; the destination paths are all absent or all hold an
\* older file
InitDownload ==
    /\ NoCache
    /\ \E loc \in DownloadLocations : \E q \in DownloadQueries :
       \E answer \in Answers : \E origin \in {"ok", "error"} :
       \E local_file \in { <<>>, << <<"arg">> >> } :
       \E before \in {Absent, File(OldBody)} :
       \E s3 \in DownloadBuckets(loc, answer) :
           call = [fn |-> "download_file", pc |-> "called",
                   artifact |-> loc \o q, local_file |-> local_file,
                   authenticated |-> <<>>, s3 |-> s3, origin |-> origin,
                   before |-> before, dest |-> <<>>, ff |-> <<>>,
                   name |-> <<>>, then |-> "", result |-> NoResult]

NextDownload ==
    \/ df_fetcher
    \/ df_path
    \/ df_local_file
    \/ df_open
    \/ df_copy
    \/ df_return

SpecDownload == InitDownload /\ [][NextDownload]_vars

\* ------------------------------------------ the properties of a strategy

MaxReads == 3              \* reads of the properties of one strategy
MaxAccesses == 2           \* accesses of the caching downloader to the index

\* What the source of a strategy holds in its state v (1, then 2): the
\* bytes and the ETag of the page or object, the bytes of the local file,
\* and the builds that the job and the backups that the host have
content_at(v) == <<v>>
etag_at(v) == v
listing_at(v) ==
    LET build(n) == [Key |-> << <<"jobs">>, <<"j">>, <<n>>, <<"a", ".war">> >>,
                     LastModified |-> 1]
        backup(ts) == << <<"backups">>, <<"h">>, <<"pgsql">>, <<ts>>, <<>> >>
    IN Bucket(IF v = 1 THEN <<build("2")>> ELSE <<build("2"), build("10")>>,
              2, << << <<"backups">>, <<"h">>, <<>> >> >>,
              IF v = 1 THEN <<backup("10")>> ELSE <<backup("10"), backup("20")>>,
              "ok")

\* the memo cells of a strategy: self._key, self._object (self._stream of
\* an HTTPFetcher) and self._handle, <<>> for None; and the remote calls
\* that the strategy has made: list_objects_v2 (by prefix), and get_object
\* or requests.get (by key or path)
Memo == [key |-> <<>>, object |-> <<>>, handle |-> <<>>,
         lists |-> <<>>, gets |-> <<>>]

\* BaseResolvingS3Fetcher.path: self._key, set by the first read
memo_key(ff, m, v) ==
    IF ff.kind \in ResolvingKinds /\ m.key = <<>>
    THEN LET r == get_key(ff, listing_at(v))
         IN [m EXCEPT !.key = r.result.value,
                      !.lists = m.lists \o r.lists,
                      !.gets = m.gets \o r.gets]
    ELSE m

\* HTTPFetcher.response and S3Fetcher.object (of a resolving strategy:
\* of its inner S3Fetcher, whose key is self.path, resolved before): set
\* by the first read
memo_object(ff, m, v) ==
    IF m.object = <<>>
    THEN [m EXCEPT !.object = <<[etag |-> etag_at(v),
                                 body |-> content_at(v)]>>,
                   !.gets = m.gets \o
                            (IF ff.kind \in ResolvingKinds THEN m.key
                             ELSE <<lstrip(ff.parsed_url.path, "/")>>)]
    ELSE m

\* the handle property: self._handle, set by the first read to the local
\* file opened then, to BytesIO(response.content) or to object['Body']
memo_handle(ff, m, v) ==
    IF m.handle # <<>> THEN m
    ELSE IF ff.kind = "LocalFileFetcher"
    THEN [m EXCEPT !.handle = <<[opened |-> v]>>]
    ELSE LET mo == memo_object(ff, m, v)
         IN [mo EXCEPT !.handle = <<[opened |-> v,
                                     body |-> mo.object[1].body]>>]

\* the unique_id property: get_file_hash(self.path) of a local file, at
\* every read; the ETag of the response or of the object otherwise
unique_id(ff, m, v) ==
    IF ff.kind = "LocalFileFetcher" THEN get_file_hash(content_at(v))
    ELSE memo_object(ff, m, v).object[1].etag

\* self.path of a resolving strategy is read for the first time, by
\* real_parsed_url (for real_url and for the inner S3Fetcher of handle,
\* object and unique_id): the key is resolved and kept
read_path_property ==
    /\ call.fn = "reads"
    /\ call.ff.kind \in ResolvingKinds /\ call.memo.key = <<>>
    /\ call' = [call EXCEPT
           !.memo = memo_key(call.ff, call.memo, call.version)]
    /\ UNCHANGED cvars

\* the path of the strategy is known: it is no resolving strategy, or its
\* key has been resolved
PathKnown == call.ff.kind \in ResolvingKinds => call.memo.key # <<>>

Reading == call.fn = "reads" /\ Len(call.reads) < MaxReads /\ PathKnown

\* fetcher.real_url is read
read_real_url_property ==
    /\ Reading
    /\ LET ff == [call.ff EXCEPT !.key = call.memo.key]
       IN call' = [call EXCEPT
              !.reads = Append(call.reads,
                               [property |-> "real_url",
                                value |-> read_real_url(ff)])]
    /\ UNCHANGED cvars

\* fetcher.handle is read
read_handle_property ==
    /\ Reading
    /\ LET m == memo_handle(call.ff, call.memo, call.version)
       IN call' = [call EXCEPT
              !.memo = m,
              !.reads = Append(call.reads,
                               [property |-> "handle",
                                value |-> m.handle[1]])]
    /\ UNCHANGED cvars

\* fetcher.unique_id is read
read_unique_id_property ==
    /\ Reading
    /\ call' = [call EXCEPT
           !.memo = IF call.ff.kind = "LocalFileFetcher" THEN call.memo
                    ELSE memo_object(call.ff, call.memo, call.version),
           !.reads = Append(call.reads,
                            [property |-> "unique_id",
                             value |-> unique_id(call.ff, call.memo,
                                                 call.version)])]
    /\ UNCHANGED cvars

\* an index key that is the real_url of the strategy
index_key_real_url(cached_file) == cached_file.real_url

\* the key of the index that _get_cached_file looks up
\* (self.index.get(CachedFile.from_fetcher(file_fetcher).url, {})) and that
\* _update_index stores under (index[cached_file.url] = dict(cached_file))
index_key(cached_file) == cached_file.url

\* CachedFile.from_fetcher(file_fetcher) in _get_cached_file and in
\* _update_cache: cls(fetcher_.url, fetcher_.unique_id, fetcher_.real_url,
\* None) reads the three properties in this order, and the entry of the
\* index is looked up or stored
get_cached_file ==
    /\ call.fn = "reads" /\ Len(call.accesses) < MaxAccesses
    /\ PathKnown
    /\ LET uid == unique_id(call.ff, call.memo, call.version)
           m == IF call.ff.kind = "LocalFileFetcher" THEN call.memo
                ELSE memo_object(call.ff, call.memo, call.version)
           ff == [call.ff EXCEPT !.key = m.key]
           cached_file == CachedFile(geturl(call.ff.parsed_url), uid,
                                     read_real_url(ff), None)
       IN call' = [call EXCEPT
              !.memo = m,
              !.accesses = Append(call.accesses,
                                  [index_key |-> index_key(cached_file),
                                   cached_file |-> cached_file])]
    /\ UNCHANGED cvars

\* the caller builds the strategy of the artifact anew (fetcher): its memo
\* cells are empty again
fetcher_again ==
    /\ call.fn = "reads"
    /\ call.memo # Memo
    /\ call' = [call EXCEPT !.memo = Memo, !.reads = <<>>]
    /\ UNCHANGED cvars

\* the source changes: a new page, object or file content, a new build
source_changes ==
    /\ call.fn = "reads"
    /\ call.version = 1
    /\ call' = [call EXCEPT !.version = 2]
    /\ UNCHANGED cvars

\* the strategies whose properties are read
MemoArtifacts ==
    { <<"/", "d", "/", "f.war">>,
      <<"file", ":", "//", "d", "/", "f.war">>,
      <<"http", ":", "//", "b", "/", "d", "/", "f.war">>,
      <<"s3", ":", "//", "b", "/", "k">>,
      <<"jenkins", ":", "//", "b", "/", "j">>,
      <<"schemabackup", ":", "//", "b", "/", "h", "/", "d", "/", "s">> }

InitMemo ==
    /\ NoCache
    /\ \E a \in MemoArtifacts :
           call = [fn |-> "reads", ff |-> fetcher(a, FALSE).value[1],
                   memo |-> Memo, version |-> 1, reads |-> <<>>,
                   accesses |-> <<>>]

NextMemo ==
    \/ read_path_property
    \/ read_real_url_property
    \/ read_handle_property
    \/ read_unique_id_property
    \/ get_cached_file
    \/ fetcher_again
    \/ source_changes

SpecMemo == InitMemo /\ [][NextMemo]_vars


\* ------------------------------------------------------ get_file_hash

MaxLen == 4                \* bytes of a hashed file
MaxCalls == 2              \* calls of get_file_hash on one file

\* the sizes of a block, in bytes (65536 in the code)
BlockSizes == {1, 2, 3}

\* iter(partial(f.read, size), b'') that stops after the first block
read_first_block(c, size) ==
    IF c = <<>> THEN <<>>
    ELSE <<SubSeq(c, 1, IF Len(c) < size THEN Len(c) ELSE size)>>

\* iter(partial(f.read, size), b''): the blocks of the file, up to the
\* empty read
RECURSIVE read_blocks(_, _)
read_blocks(c, size) ==
    IF c = <<>> THEN <<>>
    ELSE IF Len(c) <= size THEN <<c>>
    ELSE <<SubSeq(c, 1, size)>> \o read_blocks(SubSeq(c, size + 1, Len(c)), size)

\* hasher.update(block): the digest state after the bytes of the block,
\* sha256() being the state 1
RECURSIVE hasher_update(_, _)
hasher_update(hasher, block) ==
    IF block = <<>> THEN hasher
    ELSE hasher_update(3 * hasher + block[1], Tail(block))

\* the for loop of get_file_hash over the blocks
RECURSIVE update_all(_, _)
update_all(hasher, blocks) ==
    IF blocks = <<>> THEN hasher
    ELSE update_all(hasher_update(hasher, blocks[1]), Tail(blocks))

\* get_file_hash(filepath) on a file of content c, read in blocks
get_file_hash_blocks(c, size) ==
    IF Len(c) = 0 THEN Raise("ValueError")
    ELSE Value(update_all(1, read_blocks(c, size)))

\* a call of get_file_hash
get_file_hash_call ==
    /\ call.fn = "get_file_hash"
    /\ Len(call.results) < MaxCalls
    /\ \E size \in BlockSizes :
           call' = [call EXCEPT
               !.results = Append(call.results,
                                  [size |-> size,
                                   result |-> get_file_hash_blocks(
                                                  call.content, size)])]
    /\ UNCHANGED cvars

\* the hashed files: every content of at most MaxLen bytes
Contents == UNION {[1..n -> {1, 2}] : n \in 0..MaxLen}

InitHash ==
    /\ NoCache
    /\ \E c \in Contents :
           call = [fn |-> "get_file_hash", content |-> c, results |-> <<>>]

NextHash == get_file_hash_call

SpecHash == InitHash /\ [][NextHash]_vars


\* ------------------------------------- the shapes of the index entries

MaxEntries == 2            \* entries of a persisted index

\* What json.load can give as an entry of the index: a dict of the four
\* fields of a CachedFile (its file_hash a name or null), a dict of other
\* or of too few keys, the empty dict, null, and a string
EntryShapes ==
    {"record", "null_hash", "wrong_keys", "missing_keys", "empty", "null",
     "string"}
Hashes == {4, 5}
JsonEntries ==
    { [shape |-> sh, file_hash |-> h] :
          sh \in EntryShapes \ {"record"}, h \in {None} }
    \cup { [shape |-> "record", file_hash |-> h] : h \in Hashes }

\* CachedFile.from_dict: None for an entry that is falsy, the CachedFile
\* when cls(**dict_) takes the entry, InvalidCacheEntryError for the
\* TypeError of cls(**dict_)
from_dict(entry) ==
    IF entry.shape \in {"empty", "null"} THEN NoResult
    ELSE IF entry.shape \in {"record", "null_hash"} THEN Value(entry)
    ELSE Raise("InvalidCacheEntryError")

\* The body of the loop of _prune_cache for one entry: whether the entry
\* leaves new_index, the path added to blobs_in_use, and the exception
\* that leaves the loop: AttributeError of None.file_hash in
\* _get_blob_path, TypeError of os.path.exists(None)
prune_entry(entry, blob_names) ==
    LET cached_file == from_dict(entry)
    IN IF cached_file.raised = "InvalidCacheEntryError"
       THEN [raised |-> "none", pop |-> TRUE, in_use |-> {}]
       ELSE IF cached_file.value = <<>>
       THEN [raised |-> "AttributeError", pop |-> FALSE, in_use |-> {}]
       ELSE IF cached_file.value[1].file_hash = None
       THEN [raised |-> "TypeError", pop |-> FALSE, in_use |-> {}]
       ELSE [raised |-> "none",
             pop |-> cached_file.value[1].file_hash \notin blob_names,
             in_use |-> {cached_file.value[1].file_hash}]

\* for url, entry in self.index.items(): one entry of the loop, under the
\* lock; an exception leaves _prune_cache and the constructor of the
\* downloader before the index is written
prune_loop ==
    /\ call.fn = "prune_cache" /\ call.pc = "loop"
    /\ call.at <= Len(call.index)
    /\ LET r == prune_entry(call.index[call.at], call.blob_names)
       IN call' =
            IF r.raised # "none"
            THEN [call EXCEPT !.pc = "returned", !.result = Raise(r.raised)]
            ELSE [call EXCEPT
                     !.at = call.at + 1,
                     !.new_index = IF r.pop THEN call.new_index \ {call.at}
                                   ELSE call.new_index,
                     !.blobs_in_use = call.blobs_in_use \cup r.in_use]
    /\ UNCHANGED cvars

\* json.dump(new_index, f) after the loop
prune_dump ==
    /\ call.fn = "prune_cache" /\ call.pc = "loop"
    /\ call.at > Len(call.index)
    /\ call' = [call EXCEPT !.pc = "returned", !.written = <<call.new_index>>]
    /\ UNCHANGED cvars

\* A persisted index of at most MaxEntries entries (known by their place)
\* and the names of the blobs in the blob directory
InitShapes ==
    /\ NoCache
    /\ \E n \in 0..MaxEntries : \E idx \in [1..n -> JsonEntries] :
       \E names \in SUBSET Hashes :
           call = [fn |-> "prune_cache", pc |-> "loop", index |-> idx,
                   blob_names |-> names, at |-> 1, new_index |-> 1..n,
                   blobs_in_use |-> {}, written |-> <<>>,
                   result |-> NoResult]

NextShapes ==
    \/ prune_loop
    \/ prune_dump

SpecShapes == InitShapes /\ [][NextShapes]_vars


\* ================================================================ claims
Bodies == {v.body : v \in HttpVersions \cup FileVersions}

Done(p, op) == proc[p].pc = "done" /\ proc[p].op = op

\* The index entry a download of u writes while the source holds what it
\* holds now
EntryNow(u) ==
    CachedFile(u, Token(u), real_url(u), sha256(source[u].body))

\* C1: a sequential caller that fetches a URL again while the source still
\* reports the non-empty token of the last fetch gets a cache hit: the
\* strategy's content is not read (the one read was the first fetch's), and
\* the bytes returned are those the first fetch returned.
C1_SecondFetchIsHit ==
    \A p \in Procs :
        ( /\ Done(p, "get")
          /\ last[proc[p].url] # <<>>
          /\ last[proc[p].url][1].token # None
          /\ Token(proc[p].url) = last[proc[p].url][1].token )
        => ( /\ proc[p].ok
             /\ proc[p].nreads = 0
             /\ proc[p].content = last[proc[p].url][1].content
             /\ BlobExists(proc[p].blob_path)
             /\ blobs[proc[p].blob_path] = proc[p].content )

C1_Witness ==
    \E p \in Procs :
        /\ Done(p, "get") /\ proc[p].ok /\ proc[p].nreads = 0
        /\ last[proc[p].url] # <<>>
        /\ last[proc[p].url][1].token # None
        /\ Token(proc[p].url) = last[proc[p].url][1].token

\* C2: when the token the source reports differs from the token stored for
\* the URL, the next get_handle reads the content again, and the index then
\* holds for the URL the one entry with the new token and the hash of the
\* new content.
C2_StaleIsRefetched ==
    \A p \in Procs :
        ( /\ Done(p, "get")
          /\ last[proc[p].url] # <<>>
          /\ Token(proc[p].url) # last[proc[p].url][1].token )
        => ( /\ proc[p].ok
             /\ proc[p].nreads = 1
             /\ proc[p].content = source[proc[p].url].body
             /\ proc[p].url \in DOMAIN index(index_file)
             /\ index(index_file)[proc[p].url] = EntryNow(proc[p].url) )

C2_Witness ==
    \E p \in Procs :
        /\ Done(p, "get") /\ proc[p].ok /\ proc[p].nreads = 1
        /\ last[proc[p].url] # <<>>
        /\ last[proc[p].url][1].token # None
        /\ Token(proc[p].url) # None
        /\ Token(proc[p].url) # last[proc[p].url][1].token

\* C3: the blob directory never holds two files with the same content, and
\* two URLs fetched with the same content share one blob: both index
\* entries carry its hash.
C3_OneBlobPerContent ==
    /\ \A h1, h2 \in DOMAIN blobs : blobs[h1] = blobs[h2] => h1 = h2
    /\ (\A p \in Procs : proc[p].pc \in {"new", "idle"}) =>
         \A u1, u2 \in URLS :
            ( /\ u1 # u2 /\ last[u1] # <<>> /\ last[u2] # <<>>
              /\ last[u1][1].content = last[u2][1].content )
            => ( /\ u1 \in DOMAIN index(index_file)
                 /\ u2 \in DOMAIN index(index_file)
                 /\ index(index_file)[u1].file_hash
                      = index(index_file)[u2].file_hash
                 /\ BlobExists(index(index_file)[u1].file_hash)
                 /\ blobs[index(index_file)[u1].file_hash]
                      = last[u1][1].content
                 /\ Cardinality({h \in DOMAIN blobs :
                        blobs[h] = last[u1][1].content}) = 1 )

C3_Witness ==
    /\ \A p \in Procs : proc[p].pc \in {"new", "idle"}
    /\ \E u1, u2 \in URLS :
          /\ u1 # u2 /\ last[u1] # <<>> /\ last[u2] # <<>>
          /\ last[u1][1].content = last[u2][1].content
          /\ Cardinality(DOMAIN blobs) = 1
          /\ Cardinality(DOMAIN index(index_file)) = 2

\* C4: a constructor that finds the blob directory and runs alone leaves
\* the index with exactly the entries it found whose blob existed, the blob
\* directory with exactly the blobs of these entries, and the cache root
\* with exactly the blob directory, the index file and the lock file.
Surviving(p) ==
    {u \in DOMAIN proc[p].base :
        proc[p].base[u].file_hash \in DOMAIN proc[p].pre_blobs}

C4_PruneLeavesExactly ==
    \A p \in Procs :
        (Done(p, "construct") /\ proc[p].pruned /\ p \in quiet)
        => ( /\ proc[p].ok
             /\ index_file.exists /\ index_file.valid
             /\ index_file.data = [u \in Surviving(p) |-> proc[p].base[u]]
             /\ blobs = [h \in {proc[p].base[u].file_hash : u \in Surviving(p)}
                           |-> proc[p].pre_blobs[h]]
             /\ CacheRoot = expected_toplevel_files )

C4_Witness ==
    \E p \in Procs :
        /\ Done(p, "construct") /\ proc[p].pruned /\ p \in quiet
        /\ Surviving(p) # DOMAIN proc[p].base

\* C5 (as claimed): whenever no process is inside an operation, every index
\* entry names a blob that exists.
C5_EveryEntryHasBlob ==
    (\A p \in Procs : Inactive(p)) =>
        \A u \in DOMAIN index(index_file) :
            BlobExists(index(index_file)[u].file_hash)

\* C6: no write of the index loses an entry of the last complete index: an
\* update keeps every entry of the other URLs, a sweep every entry whose
\* blob it found.
IndexWrite(p, from, to) == proc[p].pc = from /\ proc'[p].pc = to

C6_Step ==
    \A p \in Procs :
        /\ IndexWrite(p, "ui_write", "gh_open") =>
              /\ index_file'.valid
              /\ proc[p].url \in DOMAIN index_file'.data
              /\ index_file'.data[proc[p].url] = proc[p].cached_file[1]
              /\ \A u \in DOMAIN committed \ {proc[p].url} :
                    /\ u \in DOMAIN index_file'.data
                    /\ index_file'.data[u] = committed[u]
        /\ IndexWrite(p, "pr_write", "pr_blobs") =>
              /\ index_file'.valid
              /\ \A u \in DOMAIN committed :
                    \/ /\ u \in DOMAIN index_file'.data
                       /\ index_file'.data[u] = committed[u]
                    \/ committed[u].file_hash \notin DOMAIN proc[p].pre_blobs

C6_NoLostUpdate == [][C6_Step]_vars

C6_Witness ==
    /\ quiet = {}
    /\ \A p \in Procs : Done(p, "get") /\ proc[p].ok /\ proc[p].nreads = 1
    /\ \E p, q \in Procs : proc[p].url # proc[q].url
    /\ DOMAIN index(index_file) = URLS

\* C7: two processes that both download the same URL both succeed, equal
\* content is stored once, and the entry of the URL is the complete entry
\* of one of the two, naming a blob that exists.
C7_SameUrlRace ==
    \A p, q \in Procs :
        ( /\ p # q /\ Done(p, "get") /\ Done(q, "get")
          /\ proc[p].url = proc[q].url
          /\ proc[p].nreads = 1 /\ proc[q].nreads = 1 )
        => ( /\ proc[p].ok /\ proc[q].ok
             /\ proc[p].content = proc[q].content =>
                   Cardinality({h \in DOMAIN blobs :
                       blobs[h] = proc[p].content}) = 1
             /\ index_file.valid
             /\ proc[p].url \in DOMAIN index_file.data
             /\ index_file.data[proc[p].url]
                   \in {proc[p].cached_file[1], proc[q].cached_file[1]}
             /\ BlobExists(index_file.data[proc[p].url].file_hash) )

C7_Witness ==
    /\ quiet = {}
    /\ \E p, q \in Procs :
          /\ p # q /\ Done(p, "get") /\ Done(q, "get")
          /\ proc[p].url = proc[q].url
          /\ proc[p].nreads = 1 /\ proc[q].nreads = 1
          /\ proc[p].ok /\ proc[q].ok
          /\ proc[p].content # proc[q].content

\* C8: every file of the blob directory holds a complete body, and its
\* name is the SHA-256 of its content, also after kills.
C8_BlobsCompleteAndNamed ==
    \A h \in DOMAIN blobs :
        /\ blobs[h] \in Bodies
        /\ sha256(blobs[h]) = h

C8_Witness ==
    /\ kills > 0
    /\ \E p \in leftover : TRUE
    /\ \E h \in DOMAIN blobs : Len(blobs[h]) > 1

\* C9 (as claimed): whenever no process is writing the index, the index
\* read from the file is the last completely written one.
C9_CrashConsistent ==
    (\A p \in Procs : proc[p].pc \notin {"ui_write", "pr_write"}) =>
        index(index_file) = committed

\* C10: a process between its read of the index and the end of its write
\* holds the lock, and no two processes are there together.
InRMW(p) == proc[p].pc \in {"ui_write", "pr_write"}

C10_RMWUnderLock ==
    /\ \A p \in Procs : InRMW(p) => lock = p
    /\ \A p, q \in Procs : (InRMW(p) /\ InRMW(q)) => p = q

C10_Witness ==
    \E p, q \in Procs :
        /\ InRMW(p) /\ lock = p
        /\ proc[q].pc \in {"ui_lock", "pr_lock"}

\* C11: the lock is held only inside the critical section, whichever way
\* the section was left (also by an exception of the index write), and a
\* process that waits for the lock gets it in the end.
WaitsForLock(p) == proc[p].pc \in {"ui_lock", "pr_lock"}

HasHadLock(p) == InRMW(p) \/ (proc[p].pc = "done" /\ proc[p].err = "index")

C11_LockReleased ==
    /\ [](\A p \in Procs : lock = p => InRMW(p))
    /\ \A p \in Procs : WaitsForLock(p) ~> HasHadLock(p)

C11_Witness ==
    \E p \in Procs : \E q \in Procs \ {p} :
        /\ proc[p].pc = "done" /\ proc[p].err = "index"
        /\ WaitsForLock(q)
        /\ lock = NoProc

\* The scheme of an artifact string, as urlparse reads it
SchemeOf(a) == urlparse(a).scheme

Returned(fn) == call.fn = fn /\ call.pc = "returned"

ReturnsKind(kind) ==
    /\ call.result.raised = "none"
    /\ call.result.value # <<>>
    /\ call.result.value[1].kind = kind

TableSchemes ==
    {"jenkins", "schemabackup", "http", "https", "s3", "s3prefix", "file", ""}

\* the table but for the schemabackup scheme
C12_OtherSchemes ==
    LET sch == SchemeOf(call.artifact)
    IN /\ sch = "jenkins" => ReturnsKind("JenkinsS3Fetcher")
       /\ sch \in {"http", "https"} => ReturnsKind("HTTPFetcher")
       /\ sch = "s3" => ReturnsKind("S3Fetcher")
       /\ sch = "s3prefix" => ReturnsKind("PrefixS3Fetcher")
       /\ sch \notin TableSchemes
              => call.result = Raise("InvalidArtifactError")

\* C12 (as claimed): fetcher returns a JenkinsS3Fetcher for scheme jenkins,
\* SchemaBackupS3Fetcher for schemabackup, HTTPFetcher for http and https,
\* S3Fetcher for s3, PrefixS3Fetcher for s3prefix, LocalFileFetcher for file
\* or no scheme, and raises InvalidArtifactError for every other scheme.
C12_FactoryTable ==
    Returned("fetcher") =>
        /\ C12_OtherSchemes
        /\ SchemeOf(call.artifact) \in {"file", ""}
               => ReturnsKind("LocalFileFetcher")
        /\ SchemeOf(call.artifact) = "schemabackup"
               => ReturnsKind("SchemaBackupS3Fetcher")

\* C12: fetcher returns the strategy class that the table gives for the
\* scheme (jenkins, http and https, s3, s3prefix) and raises
\* InvalidArtifactError for every other scheme and returns nothing; for
\* scheme schemabackup it returns a SchemaBackupS3Fetcher only when the path
\* has three components, and raises ValueError otherwise; for scheme file
\* or none it returns a LocalFileFetcher, but raises ValueError when the
\* artifact has an authority and no path after it.
C12_FactoryTableOrFormatError ==
    Returned("fetcher") =>
        /\ C12_OtherSchemes
        /\ SchemeOf(call.artifact) \in {"file", ""} =>
               IF /\ urlparse(call.artifact).netloc # <<>>
                  /\ \A i \in DOMAIN urlparse(call.artifact).path :
                         urlparse(call.artifact).path[i] = "/"
               THEN call.result = Raise("ValueError")
               ELSE ReturnsKind("LocalFileFetcher")
        /\ SchemeOf(call.artifact) = "schemabackup" =>
               IF Len(components(urlparse(call.artifact))) = 3
               THEN ReturnsKind("SchemaBackupS3Fetcher")
               ELSE call.result = Raise("ValueError")

C12_Witness ==
    /\ Returned("fetcher")
    /\ SchemeOf(call.artifact) = "https"
    /\ call.result.raised = "none"

\* C13 (as claimed): whatever the source holds, a get_handle of the caching
\* downloader succeeds and carries the bytes that the strategy's own
\* handle, the direct downloader's result, carries.
C13_CachedEqualsDirect ==
    \A p \in Procs :
        Done(p, "get") =>
            /\ proc[p].ok
            /\ proc[p].content = handle_content(proc[p].url)

\* ------------------------------------------------------ download_file
\* the local_file parameter of an artifact string: its first value that
\* is not blank, <<>> when it has none
HintOf(a) ==
    LET at == {i \in 1..(Len(a) - 2) :
                  /\ a[i] = "local_file" /\ a[i + 1] = "="
                  /\ a[i + 2] \notin Delims}
    IN IF at = {} THEN <<>>
       ELSE <<a[(CHOOSE i \in at : \A j \in at : i <= j) + 2]>>

Downloaded ==
    call.fn = "download_file" /\ call.pc = "returned"
    /\ call.result.raised = "none"

\* C14: download_file names the destination by precedence: the local_file
\* argument when it is given, else the local_file parameter of the
\* artifact URL when it has one, else the basename of the strategy's real
\* URL; the local_file it returns is that name, and the content is there.
C14_NamePrecedence ==
    Downloaded =>
        LET res == call.result.value[1]
            chosen == IF call.local_file # <<>> THEN call.local_file[1]
                      ELSE IF HintOf(call.artifact) # <<>>
                      THEN HintOf(call.artifact)
                      ELSE basename(res.real_url)
        IN /\ res.local_file = chosen
           /\ path_state(chosen) = File(Body)

\* a download named by the parameter of the URL, which has two values,
\* where the basename of the real URL is another name
C14_Witness ==
    /\ Downloaded
    /\ call.local_file = <<>>
    /\ HintOf(call.artifact) = <<"out">>
    /\ Len(parse_qs(urlparse(call.artifact).query)) = 2
    /\ call.result.value[1].local_file = <<"out">>
    /\ basename(call.result.value[1].real_url) = <<"a", ".war">>

\* the errors of a download: of the key resolution, of the
\* authentication, of the fetch
DownloadErrors ==
    {"KeyResolutionError", "AuthenticationError", "HTTPError", "IOError"}

\* C15: when download_file fails with a key resolution, authentication
\* or fetch error, every destination path is as it was before the call:
\* not created when it was absent, not truncated when it was there.
C15_FailureLeavesDestination ==
    (call.fn = "download_file" /\ call.pc = "returned"
     /\ call.result.raised \in DownloadErrors)
        => \A n \in DOMAIN call.dest : call.dest[n] = call.before

\* ------------------------------------------------------------ resolution
UrlOfKey(key) == <<"s3", ":", "//", "b", "/">> \o key_tokens(key)

Resolving(kind) ==
    call.fn \in {"real_url", "object"} /\ call.pc = "returned"
    /\ call.ff.kind = kind

\* the parameter of the strategy's URL, "" when the URL has none
Param(name) ==
    LET q == call.ff.parsed_url.query
        i == Find(q, {name})
    IN IF i = 0 THEN "" ELSE q[i + 2]

\* the keys of the listing that end with the suffix the pattern asks for
Suffix == IF Param("pattern") = TxtPattern THEN ".txt" ELSE ".war"

EndsWith(key, suffix) ==
    LET seg == key[Len(key)] IN seg[Len(seg)] = suffix

Listed == {call.s3.keys[i] : i \in DOMAIN call.s3.keys}

Matching == {o \in Listed : EndsWith(o.Key, Suffix)}

NumberOf(w) == IF w = "10" THEN 10 ELSE IF w = "20" THEN 20
               ELSE IF w = "9" THEN 9 ELSE 2

\* C16: the real_url of a jenkins strategy is s3://<bucket>/<key> for a key
\* of the listing, taken over all its pages, that matches the filename
\* pattern and whose build number is, as a number, the largest among the
\* matching keys (build 10 before build 2).
C16_JenkinsLatestBuild ==
    (Resolving("JenkinsS3Fetcher") /\ call.fn = "real_url"
     /\ Matching # {}) =>
        \E o \in Matching :
            /\ \A o2 \in Matching :
                   NumberOf(o2.Key[3][1]) <= NumberOf(o.Key[3][1])
            /\ call.result = Value(UrlOfKey(o.Key))

C16_Witness ==
    /\ Resolving("JenkinsS3Fetcher") /\ call.fn = "real_url"
    /\ call.s3.page_size = 1
    /\ Len(call.s3.keys) = 2
    /\ call.s3.keys[1].Key = << <<"jobs">>, <<"j">>, <<"10">>, <<"a", ".war">> >>
    /\ call.s3.keys[2].Key = << <<"jobs">>, <<"j">>, <<"2">>, <<"a", ".war">> >>
    /\ call.result = Value(UrlOfKey(call.s3.keys[1].Key))

\* C17: a jenkins strategy fails with KeyResolutionError NO_RESULTS when
\* the listing is empty and NO_MATCHING_BUILDS when the listing is not
\* empty and none of its keys matches the filename pattern; get_object is
\* not called in either case.
C17_JenkinsNoKey ==
    (Resolving("JenkinsS3Fetcher") /\ Matching = {}) =>
        /\ call.result = KeyResolutionError(IF Listed = {} THEN "NO_RESULTS"
                                            ELSE "NO_MATCHING_BUILDS")
        /\ call.gets = <<>>

C17_Witness ==
    /\ Resolving("JenkinsS3Fetcher") /\ call.fn = "object"
    /\ Listed # {} /\ Matching = {}
    /\ call.result = KeyResolutionError("NO_MATCHING_BUILDS")

\* the order that the sortmethod parameter chooses
Newest == Param("sortmethod") \in {"", "newest"}

OrderOf(o) ==
    IF Newest THEN o.LastModified ELSE NumberOf(o.Key[2][2])

\* C18: with sortmethod newest, version or none, the real_url of an
\* s3prefix strategy is that of a listed key that matches the filename
\* pattern and is a maximum of the matching keys by last modification
\* (newest, the default) or by version; the resolution fails with
\* NO_RESULTS on an empty listing and with NO_MATCHING_KEYS when no listed
\* key matches.
C18_PrefixLatest ==
    (Resolving("PrefixS3Fetcher") /\ call.fn = "real_url"
     /\ Param("sortmethod") \in {"", "newest", "version"}) =>
        IF Listed = {} THEN call.result = KeyResolutionError("NO_RESULTS")
        ELSE IF Matching = {}
        THEN call.result = KeyResolutionError("NO_MATCHING_KEYS")
        ELSE \E o \in Matching :
                /\ \A o2 \in Matching : OrderOf(o2) <= OrderOf(o)
                /\ call.result = Value(UrlOfKey(o.Key))

C18_Witness ==
    /\ Resolving("PrefixS3Fetcher") /\ call.fn = "real_url"
    /\ Param("sortmethod") = "version" /\ Param("pattern") = ""
    /\ call.s3.page_size = 1
    /\ Len(call.s3.keys) = 3
    /\ call.s3.keys[1] = [Key |-> << <<"p">>, <<"v", "2", ".war">> >>,
                           LastModified |-> 2]
    /\ call.s3.keys[2] = [Key |-> << <<"p">>, <<"v", "10", ".war">> >>,
                           LastModified |-> 1]
    /\ call.s3.keys[3] = [Key |-> << <<"p">>, <<"v", "10", ".txt">> >>,
                           LastModified |-> 2]
    /\ call.result = Value(UrlOfKey(call.s3.keys[2].Key))

\* C19 (as claimed): an s3prefix strategy whose sortmethod parameter is
\* neither newest nor version fails with ValueError, whatever the listing.
C19_BadSortmethodIsValueError ==
    (Resolving("PrefixS3Fetcher")
     /\ Param("sortmethod") \notin {"", "newest", "version"}) =>
        call.result = Raise("ValueError")

\* the timestamps that the listing under the host names
ListedTimestamps ==
    {call.s3.timestamps[i][4] : i \in DOMAIN call.s3.timestamps}

\* the order of the strings "10" < "20" < "9"
StrRank(ts) == IF ts = <<"10">> THEN 1 ELSE IF ts = <<"20">> THEN 2 ELSE 3

BackupKey(ts) ==
    << <<"backups">>, <<"h">>, <<"pgsql">>, ts, <<"d">>, <<"s", ".dump">> >>

HostListed ==
    \E i \in DOMAIN call.s3.hosts : call.s3.hosts[i][2] = <<"h">>

\* C20: when the host and some timestamps are listed, a schemabackup
\* strategy with timestamp LATEST or none takes the greatest listed
\* timestamp in the order of strings, in whatever order they are listed,
\* and one with a listed timestamp takes that timestamp: the key probed
\* and, when the probe succeeds, resolved is
\* backups/<host>/pgsql/<timestamp>/<database>/<schema>.dump.  With a
\* timestamp that is not listed the resolution fails with
\* TIMESTAMP_NOT_FOUND, its message naming every listed timestamp, and
\* nothing is probed.
C20_BackupTimestamp ==
    (Resolving("SchemaBackupS3Fetcher") /\ call.fn = "real_url"
     /\ HostListed /\ ListedTimestamps # {}) =>
        LET asked == Param("timestamp")
            latest == CHOOSE ts \in ListedTimestamps :
                          \A o \in ListedTimestamps : StrRank(o) <= StrRank(ts)
            chosen == IF asked \in {"", "LATEST"} THEN latest ELSE <<asked>>
        IN IF chosen \in ListedTimestamps
           THEN /\ call.gets = <<BackupKey(chosen)>>
                /\ call.s3.get_object = "ok"
                       => call.result = Value(UrlOfKey(BackupKey(chosen)))
                /\ call.s3.get_object # "ok" => call.result.raised # "none"
           ELSE /\ call.gets = <<>>
                /\ call.result.raised = "KeyResolutionError"
                /\ call.result.reason_code = "TIMESTAMP_NOT_FOUND"
                /\ {call.result.candidates[i] :
                        i \in DOMAIN call.result.candidates}
                       = ListedTimestamps

C20_Witness ==
    /\ Resolving("SchemaBackupS3Fetcher") /\ call.fn = "real_url"
    /\ Param("timestamp") = ""
    /\ HostListed
    /\ Len(call.s3.timestamps) = 3
    /\ call.s3.timestamps[1][4] = <<"9">>
    /\ call.s3.timestamps[2][4] = <<"10">>
    /\ call.s3.timestamps[3][4] = <<"20">>
    /\ call.result = Value(UrlOfKey(BackupKey(<<"9">>)))

\* the probe of the backup key was made and get_object failed
ProbeFailed ==
    /\ Resolving("SchemaBackupS3Fetcher")
    /\ call.gets # <<>>
    /\ call.s3.get_object # "ok"

\* C21: when the probe of the backup key fails, NoSuchKey is reported as
\* KeyResolutionError with the reason code SCHEMA_NOT_FOUND, and every
\* other client error reaches the caller as the error that get_object
\* raised, of the same code and not wrapped in another exception.
C21_ProbeErrors ==
    ProbeFailed =>
        IF call.s3.get_object = "NoSuchKey"
        THEN /\ call.result.raised = "KeyResolutionError"
             /\ call.result.reason_code = "SCHEMA_NOT_FOUND"
        ELSE /\ call.result.raised = "ClientError"
             /\ call.result.code = call.s3.get_object

\* the probe has failed with another error than NoSuchKey while the
\* object of the strategy was read
C21_Witness ==
    /\ ProbeFailed
    /\ call.fn = "object"
    /\ call.s3.get_object = "InternalError"
    /\ call.result = ClientError("InternalError")

\* C22: a Timestamped-Backup strategy is constructed only when the path
\* of the URL splits into exactly three components none of which is
\* empty; every other path fails at once with the format error.
C22_ThreeNonEmptyComponents ==
    (Returned("fetcher") /\ SchemeOf(call.artifact) = "schemabackup") =>
        LET cs == Split(lstrip(urlparse(call.artifact).path, "/"), "/")
        IN IF Len(cs) = 3 /\ \A i \in 1..3 : cs[i] # <<>>
           THEN ReturnsKind("SchemaBackupS3Fetcher")
           ELSE call.result.raised = "ValueError"

\* the strategies that hold an S3 client
S3Kinds ==
    {"S3Fetcher", "JenkinsS3Fetcher", "PrefixS3Fetcher",
     "SchemaBackupS3Fetcher"}

\* C23: when the caller of fetcher leaves authenticated out, a
\* Timestamped-Backup strategy has an authenticated S3 client and every
\* other strategy with an S3 client has an anonymous one.
C23_BackupAuthenticatedByDefault ==
    (Returned("fetcher") /\ call.authenticated = <<>>
     /\ call.result.raised = "none"
     /\ call.result.value[1].kind \in S3Kinds) =>
        get_client(call.result.value[1].authenticated)
            = IF call.result.value[1].kind = "SchemaBackupS3Fetcher"
              THEN "authenticated" ELSE "anonymous"

\* the codes of the client errors that tell of missing or refused
\* credentials
AuthorizationCodes == {"AccessDenied"}

\* C24: when get_object fails, the S3 strategy raises AuthenticationError
\* only for an authorization failure; a not-found error or any other
\* client error reaches the caller as it is, not as AuthenticationError.
C24_OnlyAuthorizationIsWrapped ==
    (call.fn = "s3_object" /\ call.pc = "returned"
     /\ call.s3.get_object # "ok") =>
        IF call.s3.get_object \in AuthorizationCodes
        THEN call.result.raised = "AuthenticationError"
        ELSE call.result = ClientError(call.s3.get_object)

\* C25: once real_url, handle or unique_id of a strategy has been read,
\* every later read of that property on the same strategy gives the same
\* value, whatever has become of the source in between; for a local
\* file, an HTTP, an S3 and a resolving strategy.
C25_ReadsAreMemoized ==
    call.fn = "reads" =>
        \A i \in DOMAIN call.reads : \A j \in DOMAIN call.reads :
            call.reads[i].property = call.reads[j].property
                => call.reads[i].value = call.reads[j].value

\* an artifact string without the fields of its query that name local_file
WithoutLocalFile(a) ==
    LET q == Find(a, {"?"})
        fields == IF q = 0 THEN <<>> ELSE Split(SubSeq(a, q + 1, Len(a)), "&")
        kept == SelectSeq(fields,
                          LAMBDA f : f = <<>> \/ f[1] # "local_file")
    IN IF q = 0 THEN a
       ELSE SubSeq(a, 1, q - 1)
            \o (IF kept = <<>> THEN <<>> ELSE <<"?">> \o amp_join(kept))

\* the tokens of a URL
Tokens(url) == {url[i] : i \in 1..Len(url)}

\* C26: fetcher takes local_file out of the query before it builds the
\* strategy: local_file_hint is the value of the parameter, and neither
\* url (the key of the cache index), nor real_url, nor
\* get_value_from_query_string shows local_file; the url is that of the
\* same artifact string written without local_file, so both have one
\* entry of the cache index.
C26_LocalFileLeavesTheQuery ==
    (Returned("fetcher") /\ call.result.raised = "none") =>
        LET ff == call.result.value[1]
            other == fetcher(WithoutLocalFile(call.artifact), FALSE).value[1]
        IN /\ ff.local_file_hint = HintOf(call.artifact)
           /\ "local_file" \notin Tokens(geturl(ff.parsed_url))
           /\ ff.kind \notin ResolvingKinds
                  => "local_file" \notin Tokens(read_real_url(ff))
           /\ get_value_from_query_string(ff.parsed_url, "local_file", "")
                  = ""
           /\ geturl(ff.parsed_url) = geturl(other.parsed_url)

\* a strategy of an artifact that names local_file twice, and a pattern
C26_Witness ==
    /\ Returned("fetcher") /\ call.result.raised = "none"
    /\ Len(qs_values(parse_qs(urlparse(call.artifact).query),
                     "local_file")) = 2
    /\ call.result.value[1].local_file_hint = <<"out">>
    /\ call.result.value[1].parsed_url.query = <<"pattern", "=", "p">>
    /\ WithoutLocalFile(call.artifact) # call.artifact

\* C27: get_file_hash of a zero-length file raises the error of the empty
\* file at every call and returns no digest; of a file that is not empty
\* it returns, at every call and for every size of the blocks, the
\* SHA-256 digest of the whole content.
C27_HashOfFile ==
    call.fn = "get_file_hash" =>
        \A i \in DOMAIN call.results :
            call.results[i].result =
                IF call.content = <<>> THEN Raise("ValueError")
                ELSE Value(sha256(call.content))

\* two calls on a file of several blocks, the blocks of different sizes,
\* the last block shorter than the others
C27_Witness ==
    /\ call.fn = "get_file_hash"
    /\ Len(call.content) = 4
    /\ Len(call.results) = 2
    /\ call.results[1].size = 3
    /\ call.results[2].size = 1
    /\ call.results[1].result = call.results[2].result
    /\ call.results[1].result.raised = "none"

\* a local-file strategy has been built
LocalStrategy == Returned("fetcher") /\ ReturnsKind("LocalFileFetcher")

C29_CorruptEntriesAreDropped ==
    (call.fn = "prune_cache" /\ call.pc = "returned") =>
        /\ call.result.raised = "none"
        /\ call.written =
               << {i \in DOMAIN call.index :
                      /\ call.index[i].shape = "record"
                      /\ call.index[i].file_hash \in call.blob_names} >>

\* p starts a get_handle that is a cache hit: the index has an entry of the
\* URL whose token is not None and is the token of the source, and the
\* blob of the entry exists
HitStart(p) ==
    /\ proc[p].pc = "idle" /\ proc'[p].pc # "idle" /\ proc'[p].op = "get"
    /\ LET u == proc'[p].url
           idx == index(index_file)
       IN /\ u \in DOMAIN idx
          /\ idx[u].unique_id # None
          /\ idx[u].unique_id = Token(u)
          /\ idx[u].file_hash \in DOMAIN blobs

\* where a process is in the update of a miss and in the sweep
UpdatePcs == {"uc_begin", "uc_copy", "uc_hash", "ui_lock", "ui_write"}
SweepPcs == {"pr_lock", "pr_write", "pr_blobs", "pr_unlink", "pr_top"}

C30_Step ==
    /\ \A p \in Procs :
          /\ HitStart(p) =>
                /\ proc'[p].pc = "gh_open"
                /\ proc'[p].nreads = 0
                /\ UNCHANGED <<index_file, blobs, blob_dir>>
          /\ (proc[p].pc = "gh_open" /\ proc'[p] # proc[p]) =>
                /\ proc'[p].pc = "done"
                /\ proc'[p].nreads = proc[p].nreads
                /\ UNCHANGED <<index_file, blobs, blob_dir>>
    /\ (index_file' # index_file \/ blobs' # blobs) =>
          \E p \in Procs :
              /\ proc[p].pc \in UpdatePcs \cup SweepPcs
              /\ proc'[p] # proc[p]

\* C30: a get_handle that is a cache hit goes to the opening of the blob
\* without a read of the handle of the strategy, and leaves the index
\* file and the blob directory as they are; the index file and the blobs
\* change only in steps of the sweep and of the update of a miss.
C30_HitChangesNothing == [][C30_Step]_vars

\* a hit has been served while the other process was in its sweep or in
\* its update
C30_Witness ==
    \E p \in Procs : \E q \in Procs \ {p} :
        /\ Done(p, "get") /\ proc[p].ok /\ proc[p].nreads = 0
        /\ proc[p].cached_file # <<>>
        /\ proc[p].content = blobs[proc[p].blob_path]
        /\ proc[q].pc \in UpdatePcs \cup SweepPcs

\* The token that belongs to the content p has read: the ETag of the
\* response, the hash of the local file
TokenRead(p) ==
    IF proc[p].url = U_HTTP THEN proc[p].response[1].etag
    ELSE get_file_hash(proc[p].response[1].body)

\* The entry's hash is the hash of the content that its token names (it
\* is not when the source changed while the entry's download was running)
Faithful(cf) ==
    \E v \in Versions(cf.url) :
        /\ cf.unique_id = (IF cf.url = U_HTTP THEN v.etag
                           ELSE get_file_hash(v.body))
        /\ cf.file_hash = sha256(v.body)

\* One of the four miss conditions holds for u: no entry, an entry without
\* token, a token that is not the source's, or no blob under the entry's hash
Miss(u) ==
    LET idx == index(index_file)
    IN \/ u \notin DOMAIN idx
       \/ idx[u].unique_id = None
       \/ idx[u].unique_id # Token(u)
       \/ idx[u].file_hash \notin DOMAIN blobs

C31_Step ==
    \A p \in Procs :
        \* the miss is found: the update starts, with the entry kept only
        \* when its token is current and its blob is missing
        /\ ( /\ proc[p].pc = "idle" /\ proc'[p].pc # "idle"
             /\ proc'[p].op = "get"
             /\ Miss(proc'[p].url) )
           => /\ proc'[p].pc = "uc_begin"
              /\ proc'[p].cached_file # <<>> =>
                    /\ proc'[p].cached_file[1]
                          = index(index_file)[proc'[p].url]
                    /\ proc'[p].cached_file[1].unique_id
                          = Token(proc'[p].url)
        \* a source without token is never served from the cache
        /\ ( /\ proc[p].pc = "idle" /\ proc'[p].pc # "idle"
             /\ proc'[p].op = "get"
             /\ Token(proc'[p].url) = None )
           => proc'[p].pc = "uc_begin" /\ proc'[p].cached_file = <<>>
        \* the content is read, and the blob of its hash is there; under
        \* the old hash when the entry was kept
        /\ (proc[p].pc = "uc_hash" /\ proc'[p].pc = "ui_lock")
           => /\ proc[p].nreads = 1
              /\ proc'[p].blob_path = sha256(proc[p].response[1].body)
              /\ proc'[p].blob_path \in DOMAIN blobs'
              /\ blobs'[proc'[p].blob_path] = proc[p].response[1].body
              /\ ( /\ proc[p].cached_file[1].file_hash # None
                   /\ Faithful(proc[p].cached_file[1])
                   /\ TokenRead(p) = proc[p].cached_file[1].unique_id )
                 => proc'[p].blob_path = proc[p].cached_file[1].file_hash
        \* the entry is rewritten
        /\ (proc[p].pc = "ui_write" /\ proc'[p].pc = "gh_open")
           => /\ index_file'.valid
              /\ proc[p].url \in DOMAIN index_file'.data
              /\ index_file'.data[proc[p].url].file_hash
                    = sha256(proc[p].response[1].body)
              /\ index_file'.data[proc[p].url].unique_id
                    = proc[p].cached_file[1].unique_id
              /\ proc[p].url = U_HTTP =>
                    index_file'.data[proc[p].url].unique_id = TokenRead(p)

\* C31: a get_handle that finds no entry of the URL, an entry without
\* token, an entry whose token is not the source's, or an entry whose blob
\* is missing, reads the content of the strategy, puts the blob of its hash
\* in place and rewrites the entry; a source that reports no token is read
\* at every access, and the blob of a current entry that was missing comes
\* back under the hash of the entry.
C31_MissIsRefetched == [][C31_Step]_vars

\* the content has been read again for an entry with a current token
\* whose blob is missing
C31_Witness ==
    \E p \in Procs :
        /\ proc[p].pc = "uc_hash" /\ proc[p].nreads = 1
        /\ tmp[p] = <<proc[p].response[1].body>>
        /\ proc[p].cached_file[1].file_hash # None
        /\ Faithful(proc[p].cached_file[1])
        /\ TokenRead(p) = proc[p].cached_file[1].unique_id
        /\ ~BlobExists(proc[p].cached_file[1].file_hash)

\* The entry names a blob that is in the blob directory under its final
\* name, with a complete body of that hash
Published(cf) ==
    /\ cf.file_hash # None
    /\ cf.file_hash \in DOMAIN blobs
    /\ blobs[cf.file_hash] \in Bodies
    /\ sha256(blobs[cf.file_hash]) = cf.file_hash

\* C32: among processes that only download, every entry that the index
\* file holds, and every entry of an index that is being written, carries
\* a hash that is not None and names a complete blob that is already in the
\* blob directory: the blob is published before the index refers to it.
C32_BlobBeforeEntry ==
    /\ \A u \in DOMAIN index(index_file) : Published(index(index_file)[u])
    /\ \A p \in Procs :
          proc[p].pc = "ui_write" =>
              \A u \in DOMAIN proc[p].new_index :
                  Published(proc[p].new_index[u])

\* a blob is published and its entry is not yet written, beside an entry
\* already written
C32_Witness ==
    \E p \in Procs :
        /\ proc[p].pc = "ui_lock"
        /\ Published(proc[p].cached_file[1])
        /\ proc[p].url \notin DOMAIN index(index_file)
        /\ DOMAIN index(index_file) # {}

ListHosts == << <<"backups">>, <<>> >>
ListTimestamps == << <<"backups">>, <<"h">>, <<"pgsql">>, <<>> >>

\* C33: a resolution of the backup key lists the hosts first and stops
\* there with HOST_NOT_FOUND when the host is not listed, whatever the
\* timestamp parameter and the timestamps are; else it lists the
\* timestamps and stops with NO_TIMESTAMPS when there is none, whatever
\* timestamp was asked for; else it stops with TIMESTAMP_NOT_FOUND when the
\* timestamp asked for is not listed; only then it probes the key.  After
\* a check that fails no listing and no get_object is issued.
C33_BackupCheckOrder ==
    Resolving("SchemaBackupS3Fetcher") =>
        IF ~HostListed
        THEN /\ call.result = KeyResolutionError("HOST_NOT_FOUND")
             /\ call.lists = <<ListHosts>>
             /\ call.gets = <<>>
        ELSE IF ListedTimestamps = {}
        THEN /\ call.result = KeyResolutionError("NO_TIMESTAMPS")
             /\ call.lists = <<ListHosts, ListTimestamps>>
             /\ call.gets = <<>>
        ELSE IF /\ Param("timestamp") \notin {"", "LATEST"}
                /\ <<Param("timestamp")>> \notin ListedTimestamps
        THEN /\ call.result.raised = "KeyResolutionError"
             /\ call.result.reason_code = "TIMESTAMP_NOT_FOUND"
             /\ call.lists = <<ListHosts, ListTimestamps>>
             /\ call.gets = <<>>
        ELSE /\ call.lists = <<ListHosts, ListTimestamps>>
             /\ Len(call.gets) \in {1, 2}
             /\ \A i \in DOMAIN call.gets : call.gets[i] = call.gets[1]

\* the host is missing while timestamps are listed and a timestamp that is
\* not among them is asked for
C33_Witness ==
    /\ Resolving("SchemaBackupS3Fetcher")
    /\ ~HostListed
    /\ Param("timestamp") = "7"
    /\ ListedTimestamps # {}
    /\ call.result = KeyResolutionError("HOST_NOT_FOUND")
    /\ call.lists = <<ListHosts>>

\* C34 (as claimed): a strategy that has been constructed, and of which no
\* property has been read, has made no remote call, and whatever
\* properties are read of it, in whatever order
\* and however often, it makes at most one get of the object or page and
\* lists no prefix twice.
C34_RemoteCallsOnce ==
    call.fn = "reads" =>
        /\ ( /\ call.memo.key = <<>> /\ call.memo.object = <<>>
             /\ call.memo.handle = <<>> ) =>
               call.memo.gets = <<>> /\ call.memo.lists = <<>>
        /\ Len(call.memo.gets) <= 1
        /\ \A i \in DOMAIN call.memo.lists : \A j \in DOMAIN call.memo.lists :
               call.memo.lists[i] = call.memo.lists[j] => i = j

\* C35 (as claimed): the key under which the caching downloader looks up
\* and stores the entry of a strategy is the strategy's real_url, so that
\* two accesses whose strategies resolve to different keys of the bucket
\* (a new build has appeared in between) use different keys of the index.
C35_IndexKeyIsCanonicalUrl ==
    call.fn = "reads" =>
        /\ \A i \in DOMAIN call.accesses :
               call.accesses[i].index_key
                   = call.accesses[i].cached_file.real_url
        /\ \A i \in DOMAIN call.accesses : \A j \in DOMAIN call.accesses :
               call.accesses[i].cached_file.real_url
                     # call.accesses[j].cached_file.real_url
                  => call.accesses[i].index_key # call.accesses[j].index_key

\* p takes a step of a get_handle
GetStepOf(p) ==
    /\ proc'[p] # proc[p]
    /\ proc[p].op = "get" \/ proc'[p].op = "get"

C36_Step ==
    \A p \in Procs :
        GetStepOf(p) =>
            \* a get_handle fails in the read of the token, of the handle
            \* or in the hashing of the temporary file only
            /\ (proc'[p].pc = "done" /\ ~proc'[p].ok) =>
                  /\ proc[p].pc \in {"idle", "uc_begin", "uc_copy", "uc_hash"}
                  /\ UNCHANGED <<index_file, blobs, blob_dir>>
            \* and up to there it has changed neither index nor blobs
            /\ proc[p].pc \in {"idle", "uc_begin", "uc_copy"} =>
                  UNCHANGED <<index_file, blobs, blob_dir>>

\* C36: a get_handle of a single caller whose update fails in the read of
\* the strategy's content or in the hashing of the temporary file consists
\* of steps that leave the index file and the blob directory as they are:
\* no entry is added or changed and no blob is added.
C36_FailedUpdateChangesNothing == [][C36_Step]_vars

\* the read of the handle has failed and has left its temporary file, in
\* a cache that holds an entry and a blob
C36_Witness ==
    /\ Done("p1", "get") /\ ~proc["p1"].ok /\ proc["p1"].err = "handle"
    /\ "p1" \in leftover
    /\ DOMAIN index(index_file) # {}
    /\ DOMAIN blobs # {}

\* C37 (as claimed): a get_handle that has read the content of the
\* strategy on a miss succeeds and returns that content, whatever sweeps
\* of other processes' constructors run beside it.
C37_DownloadSurvivesSweep ==
    \A p \in Procs :
        ( /\ Done(p, "get") /\ proc[p].nreads = 1
          /\ \A q \in Procs \ {p} : proc[q].op \in {"none", "construct"} )
        => ( /\ proc[p].ok
             /\ proc[p].content = proc[p].response[1].body )

\* The index as last completely written holds a current entry of u: its
\* token is not None and is the source's, and its blob exists
CurrentEntry(u) ==
    /\ u \in DOMAIN committed
    /\ committed[u].unique_id # None
    /\ committed[u].unique_id = Token(u)
    /\ BlobExists(committed[u].file_hash)

C38_Step ==
    \A p \in Procs :
        ( /\ proc[p].pc = "idle" /\ proc'[p].pc # "idle"
          /\ proc'[p].op = "get"
          /\ CurrentEntry(proc'[p].url)
          /\ \A q \in Procs \ {p} :
                proc[q].op = "get" => proc[q].url # proc'[p].url )
        => ( /\ proc'[p].pc = "gh_open"
             /\ proc'[p].nreads = 0 )

\* C38 (as claimed): a get_handle of a URL whose entry in the index is
\* current goes to the opening of the blob, without a read of the
\* strategy's content, wherever the other processes are in their updates
\* of the entries of other URLs.
C38_HitBesideUpdate == [][C38_Step]_vars

\* C39 (as claimed): the key that a jenkins strategy of job j resolves is
\* a key of job j, jobs/j/<build>/<basename>, whatever other jobs whose
\* names begin with j the bucket holds.
C39_KeyOfTheJob ==
    (Resolving("JenkinsS3Fetcher") /\ call.result.raised = "none") =>
        /\ call.ff.key # <<>>
        /\ call.ff.key[1][1] = <<"jobs">>
        /\ call.ff.key[1][2] = lstrip(call.ff.parsed_url.path, "/")

\* C40 (as claimed): whatever keys the listing of a jenkins strategy holds,
\* of the form jobs/<job>/<build>/<basename> or not, with a number for
\* the build or not, the resolution ends with a key of the listing or with
\* KeyResolutionError NO_RESULTS or NO_MATCHING_BUILDS.
C40_OnlyKeyResolutionErrors ==
    Resolving("JenkinsS3Fetcher") =>
        \/ /\ call.result.raised = "none"
           /\ \E i \in DOMAIN call.s3.keys : call.ff.key = <<call.s3.keys[i].Key>>
        \/ call.result = KeyResolutionError("NO_RESULTS")
        \/ call.result = KeyResolutionError("NO_MATCHING_BUILDS")

====
